---------------------------- MODULE Spec2Model ----------------------------
(***************************************************************************)
(* A model of ygoqt_writer.py: the tag-record codec (YuGiOhCard) and the   *)
(* NFC tag session (NFCMonitor: monitor, write_to_tag, read_tag).          *)
(*                                                                         *)
(* A Python str is a sequence of one-character strings, a bytes object a   *)
(* sequence of naturals below 256.  An exception is a result record with   *)
(* ok = FALSE.                                                             *)
(*                                                                         *)
(* The specifications share the variables:                                 *)
(*   SpecCodec        the codec applied to bounded sets of inputs,         *)
(*   SpecMonitor      the polling loop of NFCMonitor.monitor and stop(),   *)
(*   SpecMonitorFair  the same, the monitor thread being scheduled,        *)
(*   SpecWrite        one call of NFCMonitor.write_to_tag,                 *)
(*   SpecRead         one call of NFCMonitor.read_tag.                     *)
(* Each leaves the variables of the others unchanged.                      *)
(***************************************************************************)
EXTENDS Integers, Sequences, FiniteSets, TLC

VARIABLES
  \* ---- codec (YuGiOhCard) ----
  cpc,        \* "new" | "encoded" | "decoded" | "raw" | "rawdecoded"
  rec,        \* the constructor's arguments, as given
  card,       \* the constructed object (fields, encoded_data), or NoCard
  encoded,    \* the result of encode_card in __init__
  data,       \* the argument of decode_card
  decoded,    \* the result of decode_card
  reencoded,  \* the result of a second encode_card on the constructed object
  \* ---- NFCMonitor.monitor ----
  running,    \* self._running
  last_state, \* self.last_state
  mpc,        \* the monitor thread's position
  new_state,  \* local new_state of the current cycle
  tag_uid,    \* local tag_uid of the current cycle
  obs,        \* what the transport answered in the current cycle
  polls,      \* number of poll cycles started
  observed,   \* history: new_state of every completed cycle
  emitted,    \* history: statusChanged and tagUIDDetected emissions, in order
  stop_at,    \* history: where the monitor thread was when stop() was called
  \* ---- NFCMonitor.write_to_tag ----
  wpc,        \* the caller's position inside write_to_tag
  wdata,      \* the argument data
  wreaders,   \* history: what readers() answered
  wpages,     \* local pages: the chunks of data_bytes as sliced
  wi,         \* loop index i
  wconn,      \* TRUE while the page's connection is open
  wobs,       \* history: per page attempted, what the transport answered
  wconsole,   \* history: pages reported "Successfully wrote page p"
  wresult,    \* history: writeResult emissions
  \* ---- the tag on the reader ----
  tag,        \* user memory: page number -> the four bytes of the page
  tag0,       \* history: the memory before the operation began
  \* ---- NFCMonitor.read_tag ----
  rpc,        \* the read thread's position inside read_tag
  rpage,      \* loop variable page
  full_data,  \* local full_data
  robs,       \* history: per page attempted, what the transport answered
  rconsole,   \* history: consoleMessage emissions
  rresult,    \* history: readTagResult emissions
  \* ---- YGOWriter: the window, its handlers run on the GUI thread ----
  nfc_status, \* self.nfc_status
  handled,    \* number of the monitor's notifications the GUI has handled
  lbl_taguid, \* the UID shown in lbl_taguid, after "Tag UID: "
  chk_readonly, \* chk_readonly.isChecked()
  bttn_write, \* bttn_write.isEnabled()
  read_threads, \* history: number of NFCReadThread objects started
  current_card,      \* self.current_card: the catalog entry's id, or <<>>
  encoded_card,      \* self.encoded_card: a YuGiOhCard, or NoCard
  le_finalstring,    \* le_finalstring.text()
  current_card_urls, \* self.current_card_urls
  cmb_setid,         \* cmb_setid: its items and its current text
  lbl_read_console,  \* lbl_read_console.text()
  console,           \* the last line console_out has written
  last_read,  \* history: the last call of handle_read_tag_result
  last_send,  \* history: the last call of send_string
  sent,       \* history: the payloads the relay has been sent
  pending     \* the commands QTimer.singleShot holds for a later send

codecVars   == <<cpc, rec, card, encoded, data, decoded, reencoded>>
monitorVars == <<running, last_state, mpc, new_state, tag_uid, obs, polls,
                 observed, emitted, stop_at>>
writeVars   == <<wpc, wdata, wreaders, wpages, wi, wconn, wobs, wconsole,
                 wresult>>
tagVars     == <<tag, tag0>>
readVars    == <<rpc, rpage, full_data, robs, rconsole, rresult>>
sessionVars == <<nfc_status, handled, lbl_taguid, chk_readonly, bttn_write,
                 read_threads>>
cardVars    == <<current_card, encoded_card, le_finalstring, current_card_urls,
                 cmb_setid>>
msgVars     == <<lbl_read_console, console>>
deskVars    == <<last_read, last_send, sent, pending>>
guiVars     == <<sessionVars, cardVars, msgVars, deskVars>>
vars        == <<codecVars, monitorVars, writeVars, tagVars, readVars,
                 guiVars>>

\* Python's None: as a string where a message is absent, as -1 where an int
\* state is absent, as the empty string where a str is absent (both falsy).
None == "None"

NoneState == -1

NoRecord ==
  [identifier |-> <<>>, passcode |-> <<>>, konami_id |-> <<>>,
   variant |-> <<>>, set_id |-> <<>>, lang |-> <<>>, number |-> <<>>,
   rarity |-> <<>>, edition |-> <<>>]

NoCard == [constructed |-> FALSE, fields |-> NoRecord, encoded_data |-> <<>>]

\* A combo box without items: currentText() is the empty string.
NoItems == [items |-> <<>>, current |-> <<>>]

NotCalled == [ok |-> FALSE, err |-> "NotCalled"]

(***************************************************************************)
(* Python str methods, as the code uses them.                              *)
(***************************************************************************)
Min(a, b) == IF a < b THEN a ELSE b

Rep(ch, n) == [i \in 1..n |-> ch]

\* s[a:b] for 0 <= a, 0 <= b: indices past the end are clamped.
Slice(s, a, b) ==
  LET lo == Min(a, Len(s))
      hi == Min(b, Len(s))
  IN  IF lo >= hi THEN <<>> ELSE SubSeq(s, lo + 1, hi)

startswith(s, p) == Len(s) >= Len(p) /\ SubSeq(s, 1, Len(p)) = p

DigitChars == {"0", "1", "2", "3", "4", "5", "6", "7", "8", "9"}

\* str.isdigit(): non-empty and every character a digit.
isdigit(s) == Len(s) > 0 /\ \A i \in 1..Len(s) : s[i] \in DigitChars

\* str.ljust(width, fill)
ljust(s, width, fill) ==
  IF Len(s) >= width THEN s ELSE s \o Rep(fill, width - Len(s))

\* str.zfill(width): zeros go after a leading sign.
zfill(s, width) ==
  IF Len(s) >= width THEN s
  ELSE IF Len(s) > 0 /\ s[1] \in {"+", "-"}
       THEN <<s[1]>> \o Rep("0", width - Len(s)) \o Tail(s)
       ELSE Rep("0", width - Len(s)) \o s

RECURSIVE rstripSet(_, _)
rstripSet(s, chars) ==
  IF s = <<>> THEN s
  ELSE IF s[Len(s)] \in chars THEN rstripSet(SubSeq(s, 1, Len(s) - 1), chars)
  ELSE s

RECURSIVE lstripSet(_, _)
lstripSet(s, chars) ==
  IF s = <<>> THEN s
  ELSE IF s[1] \in chars THEN lstripSet(Tail(s), chars)
  ELSE s

\* str.rstrip('-')
rstrip(s, ch) == rstripSet(s, {ch})

Whitespace == {" ", "\t", "\n"}

\* str.strip(): whitespace off both ends.
strip(s) == lstripSet(rstripSet(s, Whitespace), Whitespace)

YG == <<"Y", "G">>
Terminator == <<"X", "X", "X">>

(***************************************************************************)
(* YuGiOhCard.encode_card.  It validates the fields of self in order,      *)
(* pads each one in place as it goes, and returns the concatenation.  The  *)
(* result carries self as the call left it.                                *)
(***************************************************************************)
Raise(self, msg) == [ok |-> FALSE, err |-> msg, out |-> <<>>, self |-> self]

Return(self, s) == [ok |-> TRUE, err |-> None, out |-> s, self |-> self]

\* encode_card with decode_card's looser rarity bound (4 instead of 2).
encode_card_rarity4(self) ==
  IF Len(self.identifier) # 4 \/ ~startswith(self.identifier, YG)
  THEN Raise(self, "Identifier") ELSE
  IF Len(self.passcode) < 5 THEN Raise(self, "Passcode") ELSE
  LET s1 == [self EXCEPT !.passcode = ljust(@, 10, "-")] IN
  IF ~isdigit(s1.konami_id) \/ Len(s1.konami_id) > 8
  THEN Raise(s1, "Konami") ELSE
  LET s2 == [s1 EXCEPT !.konami_id = ljust(@, 8, "-")] IN
  IF ~isdigit(s2.variant) \/ Len(s2.variant) # 4
  THEN Raise(s2, "Variant") ELSE
  LET s3 == [s2 EXCEPT !.variant = zfill(@, 4)] IN
  IF Len(s3.set_id) <= 2 THEN Raise(s3, "SetID") ELSE
  LET s4 == [s3 EXCEPT !.set_id = ljust(@, 4, "-")] IN
  IF Len(s4.lang) # 2 THEN Raise(s4, "Language") ELSE
  IF Len(s4.number) # 3 THEN Raise(s4, "Number") ELSE
  LET s5 == [s4 EXCEPT !.number = zfill(@, 3)] IN
  IF Len(s5.rarity) > 4 THEN Raise(s5, "Rarity") ELSE
  LET s6 == [s5 EXCEPT !.rarity = ljust(@, 2, "-")] IN
  IF Len(s6.edition) > 2 THEN Raise(s6, "Edition") ELSE
  LET s7 == [s6 EXCEPT !.edition = ljust(@, 2, "-")] IN
  Return(s7, s7.identifier \o s7.passcode \o s7.konami_id \o s7.variant
             \o s7.set_id \o s7.lang \o s7.number \o s7.rarity \o s7.edition
             \o Terminator)

encode_card(self) ==
  IF Len(self.identifier) # 4 \/ ~startswith(self.identifier, YG)
  THEN Raise(self, "Identifier") ELSE
  IF Len(self.passcode) < 5 THEN Raise(self, "Passcode") ELSE
  LET s1 == [self EXCEPT !.passcode = ljust(@, 10, "-")] IN
  IF ~isdigit(s1.konami_id) \/ Len(s1.konami_id) > 8
  THEN Raise(s1, "Konami") ELSE
  LET s2 == [s1 EXCEPT !.konami_id = ljust(@, 8, "-")] IN
  IF ~isdigit(s2.variant) \/ Len(s2.variant) # 4
  THEN Raise(s2, "Variant") ELSE
  LET s3 == [s2 EXCEPT !.variant = zfill(@, 4)] IN
  IF Len(s3.set_id) <= 2 THEN Raise(s3, "SetID") ELSE
  LET s4 == [s3 EXCEPT !.set_id = ljust(@, 4, "-")] IN
  IF Len(s4.lang) # 2 THEN Raise(s4, "Language") ELSE
  IF Len(s4.number) # 3 THEN Raise(s4, "Number") ELSE
  LET s5 == [s4 EXCEPT !.number = zfill(@, 3)] IN
  IF Len(s5.rarity) > 2 THEN Raise(s5, "Rarity") ELSE
  LET s6 == [s5 EXCEPT !.rarity = ljust(@, 2, "-")] IN
  IF Len(s6.edition) > 2 THEN Raise(s6, "Edition") ELSE
  LET s7 == [s6 EXCEPT !.edition = ljust(@, 2, "-")] IN
  Return(s7, s7.identifier \o s7.passcode \o s7.konami_id \o s7.variant
             \o s7.set_id \o s7.lang \o s7.number \o s7.rarity \o s7.edition
             \o Terminator)

(***************************************************************************)
(* YuGiOhCard.decode_card: the length check, the slices, the strips, then  *)
(* the validations in the code's order.                                    *)
(***************************************************************************)
\* The slices with the edition taken one character late.
DecodeFieldsShifted(d) ==
  [identifier |-> Slice(d, 0, 4),
   passcode   |-> rstrip(Slice(d, 4, 14), "-"),
   konami_id  |-> rstrip(Slice(d, 14, 22), "-"),
   variant    |-> Slice(d, 22, 26),
   set_id     |-> Slice(d, 26, 30),
   lang       |-> Slice(d, 30, 32),
   number     |-> Slice(d, 32, 35),
   rarity     |-> strip(Slice(d, 35, 37)),
   edition    |-> strip(Slice(d, 38, 40))]

\* The slices with the set_id stripped of whitespace as well.
DecodeFieldsStripSetId(d) ==
  [identifier |-> Slice(d, 0, 4),
   passcode   |-> rstrip(Slice(d, 4, 14), "-"),
   konami_id  |-> rstrip(Slice(d, 14, 22), "-"),
   variant    |-> Slice(d, 22, 26),
   set_id     |-> strip(Slice(d, 26, 30)),
   lang       |-> Slice(d, 30, 32),
   number     |-> Slice(d, 32, 35),
   rarity     |-> strip(Slice(d, 35, 37)),
   edition    |-> strip(Slice(d, 37, 39))]

DecodeFields(d) ==
  [identifier |-> Slice(d, 0, 4),
   passcode   |-> rstrip(Slice(d, 4, 14), "-"),
   konami_id  |-> rstrip(Slice(d, 14, 22), "-"),
   variant    |-> Slice(d, 22, 26),
   set_id     |-> Slice(d, 26, 30),
   lang       |-> Slice(d, 30, 32),
   number     |-> Slice(d, 32, 35),
   rarity     |-> strip(Slice(d, 35, 37)),
   edition    |-> strip(Slice(d, 37, 39))]

DecodeRaise(msg) == [ok |-> FALSE, err |-> msg, fields |-> NoRecord]

\* The validations with the passcode accepted from 4 characters on.
DecodeValidate_passcode4(f) ==
  IF ~startswith(f.identifier, YG) THEN DecodeRaise("Identifier") ELSE
  IF Len(f.passcode) < 4 THEN DecodeRaise("Passcode") ELSE
  IF ~isdigit(f.konami_id) \/ Len(f.konami_id) > 8
  THEN DecodeRaise("Konami") ELSE
  IF ~isdigit(f.variant) \/ Len(f.variant) # 4
  THEN DecodeRaise("Variant") ELSE
  IF Len(f.set_id) <= 2 THEN DecodeRaise("SetID") ELSE
  IF Len(f.lang) # 2 THEN DecodeRaise("Language") ELSE
  IF Len(f.number) # 3 THEN DecodeRaise("Number") ELSE
  IF Len(f.rarity) > 4 THEN DecodeRaise("Rarity") ELSE
  IF Len(f.edition) > 2 THEN DecodeRaise("Edition") ELSE
  [ok |-> TRUE, err |-> None, fields |-> f]

DecodeValidate(f) ==
  IF ~startswith(f.identifier, YG) THEN DecodeRaise("Identifier") ELSE
  IF Len(f.passcode) < 5 THEN DecodeRaise("Passcode") ELSE
  IF ~isdigit(f.konami_id) \/ Len(f.konami_id) > 8
  THEN DecodeRaise("Konami") ELSE
  IF ~isdigit(f.variant) \/ Len(f.variant) # 4
  THEN DecodeRaise("Variant") ELSE
  IF Len(f.set_id) <= 2 THEN DecodeRaise("SetID") ELSE
  IF Len(f.lang) # 2 THEN DecodeRaise("Language") ELSE
  IF Len(f.number) # 3 THEN DecodeRaise("Number") ELSE
  IF Len(f.rarity) > 4 THEN DecodeRaise("Rarity") ELSE
  IF Len(f.edition) > 2 THEN DecodeRaise("Edition") ELSE
  [ok |-> TRUE, err |-> None, fields |-> f]

EncodedLen == 42

\* decode_card without its length check.
decode_card_nolen(d) == DecodeValidate(DecodeFields(d))

decode_card(d) ==
  IF Len(d) # EncodedLen THEN DecodeRaise("Length")
  ELSE DecodeValidate(DecodeFields(d))

(***************************************************************************)
(* Inputs of the codec.  DigitRun(n) is the digit string 1234567890123...  *)
(* of length n, LetterRun(n) the string ABCDEFGH... of length n.           *)
(***************************************************************************)
DigitOf == <<"1", "2", "3", "4", "5", "6", "7", "8", "9", "0">>

LetterOf == <<"A", "B", "C", "D", "E", "F", "G", "H">>

DigitRun(n) == [i \in 1..n |-> DigitOf[((i - 1) % 10) + 1]]

LetterRun(n) == [i \in 1..n |-> LetterOf[((i - 1) % 8) + 1]]

\* The longest passcode and set_id the inputs hold: one more than the slot.
MaxPasscodeLen == 11

MaxSetIdLen == 5

IdentifierInputs ==
  { <<"Y", "G", "0", "1">>, <<"A", "B", "1", "2">>, <<"Y", "G", "1">> }

PasscodeInputs ==
  { DigitRun(n) : n \in {2, 5, 10, MaxPasscodeLen} }
    \cup { <<"1", "2", "3", "4", "-">> }

KonamiInputs ==
  { <<"0">>, DigitRun(8), DigitRun(9), <<"1", "2", "A">> }

VariantInputs ==
  { <<"0", "0", "0", "0">>, <<"1", "2">>, <<"0", "0", "A", "0">> }

SetIdInputs == { LetterRun(n) : n \in {2, 3, 4, MaxSetIdLen} }

LangInputs == { <<"E", "N">>, <<"E">> }

NumberInputs == { <<"0", "0", "1">>, <<"1", "2">> }

RarityInputs == { <<>>, <<"U", "R">>, <<"A", "B", "C">>, <<" ", "C">> }

EditionInputs == { <<>>, <<"1", "E">>, <<"A", "B", "C">> }

RecordInputs ==
  [identifier : IdentifierInputs, passcode : PasscodeInputs,
   konami_id : KonamiInputs, variant : VariantInputs, set_id : SetIdInputs,
   lang : LangInputs, number : NumberInputs, rarity : RarityInputs,
   edition : EditionInputs]

\* Strings handed to decode_card that no tag need have got from encode_card:
\* slot contents of every kind, and lengths of 41, 42 and 43 and more.
RawPasscode ==
  { ljust(DigitRun(5), 10, "-"), ljust(DigitRun(4), 10, "-"), DigitRun(10),
    Rep("-", 10), ljust(DigitRun(5) \o <<"-", "6">>, 10, "-") }

RawKonami ==
  { ljust(<<"0">>, 8, "-"), DigitRun(8), ljust(<<"1", "2", "A">>, 8, "-"),
    Rep("-", 8) }

RawVariant ==
  { <<"0", "0", "0", "0">>, <<"0", "0", "A", "0">>, <<"1", "2", "-", "-">> }

RawSetId == { <<"A", "B", "C", "-">>, LetterRun(4) }

RawRarity == { <<"U", "R">>, <<"C", "-">>, <<" ", "C">>, <<" ", " ">> }

RawEdition == { <<"1", "E">>, <<"1", " ">>, <<"-", "-">> }

RawTerminator ==
  { Terminator, <<"X", "X">>, <<"X", "X", "X", "X">>, <<"A", "B", "C">> }

RawInputs ==
  { i \o p \o k \o v \o s \o <<"E", "N">> \o <<"0", "0", "1">> \o r \o e \o t :
      i \in IdentifierInputs, p \in RawPasscode, k \in RawKonami,
      v \in RawVariant, s \in RawSetId, r \in RawRarity, e \in RawEdition,
      t \in RawTerminator }

(***************************************************************************)
(* The codec as a state machine: a record is constructed (__init__ calls   *)
(* encode_card) and what get_encoded_data() returns is decoded; or a raw   *)
(* string is decoded.                                                      *)
(***************************************************************************)
NoObs == [readers |-> None, connect |-> None, transmit |-> None,
          response |-> <<>>, sw |-> <<>>, disconnect |-> None]

NoStop == [pc |-> None, poll |-> 0]

\* Bound: the longest payload, in characters.
MaxPayloadLen == 48

StartPage == 4

PageSize == 4

\* The pages of the tag's user memory a behaviour can touch.
TagPages == StartPage..(StartPage + (MaxPayloadLen \div PageSize) + 1)

\* A tag whose user memory is all zero bytes.
BlankTag == [p \in TagPages |-> <<0, 0, 0, 0>>]

TagIdle == tag = BlankTag /\ tag0 = BlankTag

ReadIdle ==
  /\ rpc = "idle" /\ rpage = 0 /\ full_data = <<>> /\ robs = <<>>
  /\ rconsole = <<>> /\ rresult = <<>>

MonitorIdle ==
  /\ running = TRUE /\ last_state = NoneState /\ mpc = "loop"
  /\ new_state = NoneState /\ tag_uid = <<>> /\ obs = NoObs /\ polls = 0
  /\ observed = <<>> /\ emitted = <<>> /\ stop_at = NoStop

WriteIdle ==
  /\ wpc = "idle" /\ wdata = <<>> /\ wreaders = None /\ wpages = <<>>
  /\ wi = 0
  /\ wconn = FALSE /\ wobs = <<>> /\ wconsole = <<>> /\ wresult = <<>>

NoRead ==
  [called |-> FALSE, kind |-> None, tag_str |-> <<>>, lookup |-> "none",
   before |-> <<<<>>, NoCard, <<>>>>, after |-> <<<<>>, NoCard, <<>>>>]

NoSend ==
  [called |-> FALSE, flag |-> None, field |-> <<>>, port_ok |-> FALSE,
   delivered |-> {}, scheduled |-> {}, console |-> None]

\* YGOWriter.__init__: no card, no status yet, nothing checked.
GuiIdle ==
  /\ nfc_status = 0 /\ handled = 0 /\ lbl_taguid = <<>>
  /\ chk_readonly = FALSE /\ bttn_write = TRUE
  /\ read_threads = 0
  /\ current_card = <<>> /\ encoded_card = NoCard /\ le_finalstring = <<>>
  /\ current_card_urls = <<>> /\ cmb_setid = NoItems
  /\ lbl_read_console = None /\ console = None
  /\ last_read = NoRead /\ last_send = NoSend /\ sent = {} /\ pending = {}

CodecIdle ==
  /\ cpc = "idle" /\ rec = NoRecord /\ card = NoCard /\ encoded = NotCalled
  /\ data = <<>> /\ decoded = NotCalled /\ reencoded = NotCalled

InitCodec ==
  /\ \/ /\ cpc = "new" /\ rec \in RecordInputs /\ data = <<>>
     \/ /\ cpc = "raw" /\ rec = NoRecord /\ data \in RawInputs
  /\ card = NoCard /\ encoded = NotCalled /\ decoded = NotCalled
  /\ reencoded = NotCalled
  /\ MonitorIdle /\ WriteIdle /\ TagIdle /\ ReadIdle /\ GuiIdle

\* YuGiOhCard.__init__: the fields are stored, encode_card runs, and only a
\* successful call leaves an object, with encoded_data set.
Construct ==
  /\ cpc = "new"
  /\ LET r == encode_card(rec)
     IN  /\ encoded' = r
         /\ card' = IF r.ok
                    THEN [constructed |-> TRUE, fields |-> r.self,
                          encoded_data |-> r.out]
                    ELSE NoCard
  /\ cpc' = "encoded"
  /\ UNCHANGED <<rec, data, decoded, reencoded>>

\* card.encode_card() on the constructed object: it validates and pads the
\* fields as __init__ left them; encoded_data is not assigned.
EncodeAgain ==
  /\ cpc = "encoded" /\ card.constructed
  /\ LET r == encode_card(card.fields)
     IN  /\ reencoded' = r
         /\ card' = [card EXCEPT !.fields = r.self]
  /\ cpc' = "reencoded"
  /\ UNCHANGED <<rec, encoded, data, decoded>>

\* decode_card(card.get_encoded_data())
DecodeEncoded ==
  /\ cpc = "encoded" /\ card.constructed
  /\ data' = card.encoded_data
  /\ decoded' = decode_card(card.encoded_data)
  /\ cpc' = "decoded"
  /\ UNCHANGED <<rec, card, encoded, reencoded>>

\* decode_card(data) on a string read from anywhere
DecodeRaw ==
  /\ cpc = "raw"
  /\ decoded' = decode_card(data)
  /\ cpc' = "rawdecoded"
  /\ UNCHANGED <<rec, card, encoded, data, reencoded>>

NextCodec ==
  \/ Construct /\ UNCHANGED <<monitorVars, writeVars, tagVars, readVars, guiVars>>
  \/ EncodeAgain /\ UNCHANGED <<monitorVars, writeVars, tagVars, readVars, guiVars>>
  \/ DecodeEncoded /\ UNCHANGED <<monitorVars, writeVars, tagVars, readVars, guiVars>>
  \/ DecodeRaw /\ UNCHANGED <<monitorVars, writeVars, tagVars, readVars, guiVars>>

SpecCodec == InitCodec /\ [][NextCodec]_vars

(***************************************************************************)
(* Properties of the codec, checked under SpecCodec.                       *)
(***************************************************************************)
FieldNames ==
  {"identifier", "passcode", "konami_id", "variant", "set_id", "lang",
   "number", "rarity", "edition"}

\* Padding normalization: trailing '-' filler removed.
Norm(s) == rstripSet(s, {"-"})

\* The w characters of d after the first off ones (d is long enough).
Window(d, off, w) == [i \in 1..w |-> d[off + i]]

\* C1: round trip.  For every record encode_card accepts, decoding what it
\* returned succeeds and every decoded field equals the record's field once
\* trailing '-' is removed from both.
C1_RoundTrip ==
  (cpc = "decoded") =>
     /\ decoded.ok
     /\ \A f \in FieldNames : Norm(decoded.fields[f]) = Norm(rec[f])

\* C2: every string a successful encode_card returns is 42 characters long,
\* with the fields at their fixed offsets and widths, then 'XXX'.
C2_FixedLayout ==
  (cpc = "encoded" /\ encoded.ok) =>
     LET out == encoded.out
         f   == encoded.self
     IN  /\ Len(out) = 42
         /\ Slice(out, 0, 4) = f.identifier /\ Len(f.identifier) = 4
         /\ Slice(out, 4, 14) = f.passcode /\ Len(f.passcode) = 10
         /\ Slice(out, 14, 22) = f.konami_id /\ Len(f.konami_id) = 8
         /\ Slice(out, 22, 26) = f.variant /\ Len(f.variant) = 4
         /\ Slice(out, 26, 30) = f.set_id /\ Len(f.set_id) = 4
         /\ Slice(out, 30, 32) = f.lang /\ Len(f.lang) = 2
         /\ Slice(out, 32, 35) = f.number /\ Len(f.number) = 3
         /\ Slice(out, 35, 37) = f.rarity /\ Len(f.rarity) = 2
         /\ Slice(out, 37, 39) = f.edition /\ Len(f.edition) = 2
         /\ Slice(out, 39, 42) = <<"X", "X", "X">>

\* The conditions C3 lists, on the record as given to the constructor.
EncodeMustFail(r) ==
  \/ Len(r.identifier) # 4
  \/ ~(Len(r.identifier) >= 2 /\ r.identifier[1] = "Y" /\ r.identifier[2] = "G")
  \/ Len(r.passcode) < 5
  \/ Len(r.konami_id) = 0
  \/ \E i \in 1..Len(r.konami_id) : r.konami_id[i] \notin DigitChars
  \/ Len(r.konami_id) > 8
  \/ Len(r.variant) # 4
  \/ \E i \in 1..Len(r.variant) : r.variant[i] \notin DigitChars
  \/ Len(r.set_id) <= 2
  \/ Len(r.lang) # 2
  \/ Len(r.number) # 3
  \/ Len(r.rarity) > 2
  \/ Len(r.edition) > 2

\* C3: encode_card fails with a validation error, and produces no encoded
\* string and no object, whenever one of the listed conditions holds.
C3_EncodeRejects ==
  (cpc = "encoded" /\ EncodeMustFail(rec)) =>
     /\ ~encoded.ok
     /\ encoded.err # None
     /\ encoded.out = <<>>
     /\ ~card.constructed

\* A record with a 3-character rarity and nothing else wrong was rejected.
C3_Witness ==
  /\ cpc = "encoded"
  /\ ~encoded.ok
  /\ encoded.err = "Rarity"
  /\ Len(rec.rarity) = 3
  /\ Len(rec.edition) <= 2

\* s is t with the characters of chars removed from its end.
IsRStripOf(s, t, chars) ==
  /\ Len(s) <= Len(t)
  /\ \A i \in 1..Len(s) : s[i] = t[i]
  /\ \A i \in (Len(s) + 1)..Len(t) : t[i] \in chars
  /\ (s # <<>> => s[Len(s)] \notin chars)

\* s is t with the characters of chars removed from both ends.
IsStripOf(s, t, chars) ==
  \E a \in 0..Len(t) :
    /\ \A i \in 1..a : t[i] \in chars
    /\ (a < Len(t) => t[a + 1] \notin chars)
    /\ Len(s) <= Len(t) - a
    /\ \A i \in 1..Len(s) : s[i] = t[a + i]
    /\ \A i \in (a + Len(s) + 1)..Len(t) : t[i] \in chars
    /\ (s # <<>> => s[Len(s)] \notin chars)

\* C4: for every 42-character string decode_card accepts, the fields are
\* the documented slices: passcode and konami_id without trailing '-',
\* rarity and edition without surrounding whitespace, the rest as they are.
C4_DecodeSlices ==
  (cpc \in {"decoded", "rawdecoded"} /\ decoded.ok) =>
     LET f == decoded.fields
     IN  /\ Len(data) = 42
         /\ f.identifier = Window(data, 0, 4)
         /\ IsRStripOf(f.passcode, Window(data, 4, 10), {"-"})
         /\ IsRStripOf(f.konami_id, Window(data, 14, 8), {"-"})
         /\ f.variant = Window(data, 22, 4)
         /\ f.set_id = Window(data, 26, 4)
         /\ f.lang = Window(data, 30, 2)
         /\ f.number = Window(data, 32, 3)
         /\ IsStripOf(f.rarity, Window(data, 35, 2), Whitespace)
         /\ IsStripOf(f.edition, Window(data, 37, 2), Whitespace)

\* An accepted raw string whose passcode slot had filler to strip and whose
\* rarity and edition slots had whitespace to strip.
C4_Witness ==
  /\ cpc = "rawdecoded"
  /\ decoded.ok
  /\ data[14] = "-"
  /\ data[36] = " "
  /\ data[39] = " "
  /\ Len(decoded.fields.passcode) = 5
  /\ decoded.fields.rarity = <<"C">>
  /\ decoded.fields.edition = <<"1">>

LastNotIn(t, chars) ==
  IF \A i \in 1..Len(t) : t[i] \in chars THEN 0
  ELSE CHOOSE i \in 1..Len(t) :
         t[i] \notin chars /\ \A j \in (i + 1)..Len(t) : t[j] \in chars

FirstNotIn(t, chars) ==
  IF \A i \in 1..Len(t) : t[i] \in chars THEN Len(t) + 1
  ELSE CHOOSE i \in 1..Len(t) :
         t[i] \notin chars /\ \A j \in 1..(i - 1) : t[j] \in chars

\* How many characters of t are left without the chars at both its ends.
StrippedLen(t, chars) ==
  IF LastNotIn(t, chars) = 0 THEN 0
  ELSE LastNotIn(t, chars) - FirstNotIn(t, chars) + 1

\* The conditions C6 lists, on a 42-character string d.
DecodeMustFail(d) ==
  LET passLen == LastNotIn(Window(d, 4, 10), {"-"})
      konLen  == LastNotIn(Window(d, 14, 8), {"-"})
  IN  \/ ~(d[1] = "Y" /\ d[2] = "G")
      \/ passLen < 5
      \/ konLen = 0
      \/ \E i \in 1..konLen : d[14 + i] \notin DigitChars
      \/ konLen > 8
      \/ \E i \in 1..4 : d[22 + i] \notin DigitChars
      \/ Len(Window(d, 26, 4)) <= 2
      \/ Len(Window(d, 30, 2)) # 2
      \/ Len(Window(d, 32, 3)) # 3
      \/ StrippedLen(Window(d, 35, 2), Whitespace) > 4
      \/ StrippedLen(Window(d, 37, 2), Whitespace) > 2

\* C6: on a 42-character input decode_card fails exactly when one of the
\* listed conditions holds, and succeeds otherwise.
C6_DecodeRejectsExactly ==
  (cpc \in {"decoded", "rawdecoded"} /\ Len(data) = 42) =>
     (~decoded.ok <=> DecodeMustFail(data))

\* A 42-character string rejected for its konami_id slot, which is all filler.
C6_Witness ==
  /\ cpc = "rawdecoded"
  /\ Len(data) = 42
  /\ ~decoded.ok
  /\ decoded.err = "Konami"
  /\ Window(data, 14, 8) = Rep("-", 8)

\* Sixteen characters for the positions 26 to 41 of a record.
TailInputs ==
  { Rep(" ", 16), Rep("-", 16), Rep("X", 16), Rep("\t", 16), DigitRun(16),
    <<"L", "O", "B", "-", "E", "N", "0", "0", "1", "U", "R", "1", "E">>
      \o <<"?", "?", "?">> }

\* C28: two strings of 42 characters that agree on the characters 0 to 25
\* (identifier, passcode, konami_id, variant) are both accepted or both
\* rejected by decode_card: the characters 26 to 41 never cause a rejection,
\* and any terminator is accepted.
C28_TailIgnored ==
  (cpc = "rawdecoded" /\ Len(data) = 42) =>
     /\ \A t \in TailInputs :
          decode_card(Slice(data, 0, 26) \o t).ok = decoded.ok
     /\ \A t \in RawTerminator :
          Len(t) = 3 => decode_card(Slice(data, 0, 39) \o t).ok = decoded.ok
     /\ (~decoded.ok =>
           decoded.err \in {"Identifier", "Passcode", "Konami", "Variant"})

\* A record with a rarity of two spaces and the terminator ABC is accepted,
\* and so is the same head with sixteen tabs after it.
C28_Witness ==
  /\ cpc = "rawdecoded" /\ Len(data) = 42
  /\ decoded.ok
  /\ Slice(data, 35, 37) = <<" ", " ">>
  /\ Slice(data, 39, 42) = <<"A", "B", "C">>
  /\ decode_card(Slice(data, 0, 26) \o Rep("\t", 16)).ok

\* C29: encode_card is idempotent on a constructed card: a second call
\* succeeds and returns the string get_encoded_data() returns.
C29_EncodeIdempotent ==
  cpc = "reencoded" =>
     /\ reencoded.ok
     /\ reencoded.out = card.encoded_data

(***************************************************************************)
(* NFCMonitor.monitor: the polling loop, one action per step of a cycle.   *)
(* Every call into the smartcard library draws its outcome from what the   *)
(* library can answer: readers() may return no reader, some reader, or     *)
(* raise; connect() and disconnect() may raise; transmit() may raise or    *)
(* return (response, sw1, sw2).                                            *)
(***************************************************************************)
\* Bound: the number of poll cycles a behaviour holds.
MaxPolls == 4

SW_OK == <<144, 0>>      \* 0x90 0x00

TxResponses == { <<>>, <<170, 187, 204, 221>>, <<4, 10>> }

TxStatusWords == { SW_OK, <<99, 0>>, <<144, 1>> }

HexDigits ==
  <<"0", "1", "2", "3", "4", "5", "6", "7", "8", "9",
    "A", "B", "C", "D", "E", "F">>

HexDigitsLower ==
  <<"0", "1", "2", "3", "4", "5", "6", "7", "8", "9",
    "a", "b", "c", "d", "e", "f">>

RECURSIVE Join(_)
Join(ss) == IF ss = <<>> THEN <<>> ELSE Head(ss) \o Join(Tail(ss))

\* '{:02x}': the same in lower case.
FormatUidLower(response) ==
  Join([i \in 1..Len(response) |->
          <<HexDigitsLower[(response[i] \div 16) + 1],
            HexDigitsLower[(response[i] % 16) + 1]>>])

\* ''.join('{:02X}'.format(b) for b in response)
FormatUid(response) ==
  Join([i \in 1..Len(response) |->
          <<HexDigits[(response[i] \div 16) + 1],
            HexDigits[(response[i] % 16) + 1]>>])

\* The test with the response's emptiness left out.
TagDetectedAnyResponse(response, sw) == sw[1] = 144 /\ sw[2] = 0

\* if sw1 == 0x90 and sw2 == 0x00 and response
TagDetected(response, sw) == sw[1] = 144 /\ sw[2] = 0 /\ response # <<>>

\* Level-triggered: every cycle counts as a change.
StateChangedAlways(new, last) == TRUE

\* if new_state != self.last_state
StateChanged(new, last) == new # last

\* The UID emitted on every cycle that sees a tag.
UidEmittedEveryCycle(changed, new, uid) == new = 2 /\ uid # <<>>

\* tagUIDDetected is emitted inside the state-change branch only.
UidEmitted(changed, new, uid) == changed /\ new = 2 /\ uid # <<>>

StatusEvent(cycle, state) ==
  [sig |-> "statusChanged", cycle |-> cycle, state |-> state, uid |-> <<>>]

UidEvent(cycle, uid) ==
  [sig |-> "tagUIDDetected", cycle |-> cycle, state |-> NoneState, uid |-> uid]

\* The loop test that does not look at the flag.
MonitorLoopIgnoresStop ==
  /\ mpc = "loop" /\ polls < MaxPolls
  /\ polls' = polls + 1
  /\ new_state' = NoneState /\ tag_uid' = <<>> /\ obs' = NoObs
  /\ mpc' = "readers"
  /\ UNCHANGED <<running, last_state, observed, emitted, stop_at>>

\* while self._running: a new cycle starts; new_state = None, tag_uid = None
MonitorLoop ==
  /\ mpc = "loop" /\ running /\ polls < MaxPolls
  /\ polls' = polls + 1
  /\ new_state' = NoneState /\ tag_uid' = <<>> /\ obs' = NoObs
  /\ mpc' = "readers"
  /\ UNCHANGED <<running, last_state, observed, emitted, stop_at>>

\* while self._running: the flag is down, monitor() returns
MonitorExit ==
  /\ mpc = "loop" /\ ~running
  /\ mpc' = "done"
  /\ UNCHANGED <<running, last_state, new_state, tag_uid, obs, polls,
                 observed, emitted, stop_at>>

\* available_readers = readers(): empty, or the outer except, gives state 0;
\* otherwise state 1 and a connection object for the first reader.
MonitorReaders ==
  /\ mpc = "readers"
  /\ \E r \in {"empty", "raise", "present"} :
       /\ obs' = [obs EXCEPT !.readers = r]
       /\ new_state' = IF r = "present" THEN 1 ELSE 0
       /\ mpc' = IF r = "present" THEN "connect" ELSE "emit"
  /\ UNCHANGED <<running, last_state, tag_uid, polls, observed, emitted,
                 stop_at>>

\* connection.connect(): an exception leaves state 1
MonitorConnect ==
  /\ mpc = "connect"
  /\ \E c \in {"ok", "raise"} :
       /\ obs' = [obs EXCEPT !.connect = c]
       /\ new_state' = 1
       /\ mpc' = IF c = "ok" THEN "transmit" ELSE "emit"
  /\ UNCHANGED <<running, last_state, tag_uid, polls, observed, emitted,
                 stop_at>>

\* transmit() without the inner except: its exception ends monitor().
MonitorTransmitEscapes ==
  /\ mpc = "transmit"
  /\ \/ /\ obs' = [obs EXCEPT !.transmit = "raise"]
        /\ new_state' = 1
        /\ mpc' = "done"
        /\ UNCHANGED tag_uid
     \/ \E response \in TxResponses, sw \in TxStatusWords :
          /\ obs' = [obs EXCEPT !.transmit = "ok", !.response = response,
                                !.sw = sw]
          /\ IF TagDetected(response, sw)
             THEN tag_uid' = FormatUid(response) /\ new_state' = 2
             ELSE UNCHANGED <<tag_uid, new_state>>
          /\ mpc' = "disconnect"
  /\ UNCHANGED <<running, last_state, polls, observed, emitted, stop_at>>

\* response, sw1, sw2 = connection.transmit(uid_command), and the test on it
MonitorTransmit ==
  /\ mpc = "transmit"
  /\ \/ /\ obs' = [obs EXCEPT !.transmit = "raise"]
        /\ new_state' = 1
        /\ mpc' = "emit"
        /\ UNCHANGED tag_uid
     \/ \E response \in TxResponses, sw \in TxStatusWords :
          /\ obs' = [obs EXCEPT !.transmit = "ok", !.response = response,
                                !.sw = sw]
          /\ IF TagDetected(response, sw)
             THEN tag_uid' = FormatUid(response) /\ new_state' = 2
             ELSE UNCHANGED <<tag_uid, new_state>>
          /\ mpc' = "disconnect"
  /\ UNCHANGED <<running, last_state, polls, observed, emitted, stop_at>>

\* connection.disconnect(): an exception puts the state back to 1
MonitorDisconnect ==
  /\ mpc = "disconnect"
  /\ \E d \in {"ok", "raise"} :
       /\ obs' = [obs EXCEPT !.disconnect = d]
       /\ new_state' = IF d = "ok" THEN new_state ELSE 1
  /\ mpc' = "emit"
  /\ UNCHANGED <<running, last_state, tag_uid, polls, observed, emitted,
                 stop_at>>

\* The emissions in the other order: the UID before the status.
MonitorEmitUidFirst ==
  /\ mpc = "emit"
  /\ LET changed == StateChanged(new_state, last_state)
         status  == IF changed THEN <<StatusEvent(polls, new_state)>>
                    ELSE <<>>
         uid     == IF UidEmitted(changed, new_state, tag_uid)
                    THEN <<UidEvent(polls, tag_uid)>> ELSE <<>>
     IN  /\ emitted' = emitted \o uid \o status
         /\ last_state' = IF changed THEN new_state ELSE last_state
  /\ observed' = Append(observed, new_state)
  /\ mpc' = "loop"
  /\ UNCHANGED <<running, new_state, tag_uid, obs, polls, stop_at>>

\* The edge detection and the emissions, then time.sleep(poll_interval).
MonitorEmit ==
  /\ mpc = "emit"
  /\ LET changed == StateChanged(new_state, last_state)
         status  == IF changed THEN <<StatusEvent(polls, new_state)>>
                    ELSE <<>>
         uid     == IF UidEmitted(changed, new_state, tag_uid)
                    THEN <<UidEvent(polls, tag_uid)>> ELSE <<>>
     IN  /\ emitted' = emitted \o status \o uid
         /\ last_state' = IF changed THEN new_state ELSE last_state
  /\ observed' = Append(observed, new_state)
  /\ mpc' = "loop"
  /\ UNCHANGED <<running, new_state, tag_uid, obs, polls, stop_at>>

\* NFCMonitor.stop(), called from another thread
Stop ==
  /\ running
  /\ running' = FALSE
  /\ stop_at' = [pc |-> mpc, poll |-> polls]
  /\ UNCHANGED <<last_state, mpc, new_state, tag_uid, obs, polls, observed,
                 emitted>>

InitMonitor ==
  /\ MonitorIdle /\ CodecIdle /\ WriteIdle /\ TagIdle /\ ReadIdle
  /\ GuiIdle

NextMonitor ==
  \/ MonitorLoop /\ UNCHANGED <<codecVars, writeVars, tagVars, readVars, guiVars>>
  \/ MonitorExit /\ UNCHANGED <<codecVars, writeVars, tagVars, readVars, guiVars>>
  \/ MonitorReaders /\ UNCHANGED <<codecVars, writeVars, tagVars, readVars, guiVars>>
  \/ MonitorConnect /\ UNCHANGED <<codecVars, writeVars, tagVars, readVars, guiVars>>
  \/ MonitorTransmit /\ UNCHANGED <<codecVars, writeVars, tagVars, readVars, guiVars>>
  \/ MonitorDisconnect /\ UNCHANGED <<codecVars, writeVars, tagVars, readVars, guiVars>>
  \/ MonitorEmit /\ UNCHANGED <<codecVars, writeVars, tagVars, readVars, guiVars>>
  \/ Stop /\ UNCHANGED <<codecVars, writeVars, tagVars, readVars, guiVars>>

SpecMonitor == InitMonitor /\ [][NextMonitor]_vars

\* A step of the monitor thread.
MonitorStep ==
  /\ \/ MonitorLoop \/ MonitorExit \/ MonitorReaders \/ MonitorConnect
     \/ MonitorTransmit \/ MonitorDisconnect \/ MonitorEmit
  /\ UNCHANGED <<codecVars, writeVars, tagVars, readVars, guiVars>>

\* The monitor runs on a thread of its own (nfc_monitor_thread): it is
\* scheduled, its calls into the transport return or raise, and its sleep
\* ends.
SpecMonitorFair == SpecMonitor /\ WF_vars(MonitorStep)

(***************************************************************************)
(* Properties of the polling loop, checked under SpecMonitor.              *)
(***************************************************************************)
UpperHexChars ==
  {"0", "1", "2", "3", "4", "5", "6", "7", "8", "9",
   "A", "B", "C", "D", "E", "F"}

\* The value of an upper-case hex digit.
HexValue(ch) == (CHOOSE k \in 1..16 : HexDigits[k] = ch) - 1

\* uid is the bytes of response as two upper-case hex digits each.
IsUpperHexOf(uid, response) ==
  /\ Len(uid) = 2 * Len(response)
  /\ \A i \in 1..Len(uid) : uid[i] \in UpperHexChars
  /\ \A i \in 1..Len(response) :
       16 * HexValue(uid[2 * i - 1]) + HexValue(uid[2 * i]) = response[i]

\* Some step of the get-UID transaction raised.
TransactionRaised(o) ==
  o.connect = "raise" \/ o.transmit = "raise" \/ o.disconnect = "raise"

\* C7 as stated: NoReader when the enumeration is empty; otherwise
\* ReaderIdle when the transaction raises or the status word is not 90 00;
\* otherwise (status 90 00) TagPresent with the UID the response in hex.
C7_StateFromObservation_Original ==
  (mpc = "emit") =>
     /\ (obs.readers = "empty" => new_state = 0)
     /\ (obs.readers = "present" /\ TransactionRaised(obs) => new_state = 1)
     /\ (obs.readers = "present" /\ ~TransactionRaised(obs) /\ obs.sw # <<144, 0>>
           => new_state = 1)
     /\ (obs.readers = "present" /\ ~TransactionRaised(obs) /\ obs.sw = <<144, 0>>
           => new_state = 2 /\ IsUpperHexOf(tag_uid, obs.response))

\* C7 (amended): in every poll cycle the computed state is a function of
\* that cycle's observation only: NoReader when the enumeration is empty or
\* raises; otherwise ReaderIdle when the transaction raises, the status word
\* is not 90 00, or the response is empty; otherwise (status 90 00 and a
\* non-empty response) TagPresent with the UID the response bytes in
\* upper-case hex.
C7_StateFromObservation ==
  (mpc = "emit") =>
     /\ new_state \in {0, 1, 2}
     /\ (obs.readers \in {"empty", "raise"} => new_state = 0)
     /\ (obs.readers = "present" /\ TransactionRaised(obs) => new_state = 1)
     /\ (obs.readers = "present" /\ ~TransactionRaised(obs)
           /\ (obs.sw # <<144, 0>> \/ obs.response = <<>>) => new_state = 1)
     /\ (obs.readers = "present" /\ ~TransactionRaised(obs)
           /\ obs.sw = <<144, 0>> /\ obs.response # <<>>
           => /\ new_state = 2
              /\ IsUpperHexOf(tag_uid, obs.response))

\* A cycle that read the UID 04 0A with status 90 00: TagPresent, "040A".
C7_Witness ==
  /\ mpc = "emit"
  /\ obs.readers = "present" /\ ~TransactionRaised(obs)
  /\ obs.sw = <<144, 0>> /\ obs.response = <<4, 10>>
  /\ new_state = 2
  /\ tag_uid = <<"0", "4", "0", "A">>

StatusEvents == SelectSeq(emitted, LAMBDA e : e.sig = "statusChanged")

UidEvents == SelectSeq(emitted, LAMBDA e : e.sig = "tagUIDDetected")

\* ss with every element that repeats its predecessor removed.
RECURSIVE Dedup(_)
Dedup(ss) ==
  IF Len(ss) <= 1 THEN ss
  ELSE LET front == Dedup(SubSeq(ss, 1, Len(ss) - 1))
       IN  IF ss[Len(ss)] = ss[Len(ss) - 1] THEN front
           ELSE Append(front, ss[Len(ss)])

\* C8: status notifications are edge-triggered.  A cycle emits
\* statusChanged if and only if its state differs from the state of the
\* cycle before (the first cycle always emits), so the emitted states are
\* the observed states with consecutive duplicates removed.
C8_EdgeTriggered ==
  /\ \A c \in 1..Len(observed) :
       LET here == SelectSeq(StatusEvents, LAMBDA e : e.cycle = c)
       IN  IF c = 1 \/ observed[c] # observed[c - 1]
           THEN Len(here) = 1 /\ here[1].state = observed[c]
           ELSE here = <<>>
  /\ [i \in 1..Len(StatusEvents) |-> StatusEvents[i].state] = Dedup(observed)

\* NoReader, ReaderIdle, TagPresent, TagPresent: three notifications.
C8_Witness ==
  /\ observed = <<0, 1, 2, 2>>
  /\ [i \in 1..Len(StatusEvents) |-> StatusEvents[i].state] = <<0, 1, 2>>

\* C9: a cycle emits tagUIDDetected if and only if it emits statusChanged
\* for the transition into TagPresent, and then exactly once, with a
\* non-empty UID; cycles that stay in TagPresent emit none.
C9_UidOnTransition ==
  \A c \in 1..Len(observed) :
    LET uids   == SelectSeq(UidEvents, LAMBDA e : e.cycle = c)
        status == SelectSeq(StatusEvents, LAMBDA e : e.cycle = c)
    IN  IF \E i \in 1..Len(status) : status[i].state = 2
        THEN Len(uids) = 1 /\ uids[1].uid # <<>>
        ELSE uids = <<>>

\* Two tags in a row without a gap: one UID notification, for the first.
C9_Witness ==
  /\ Len(observed) = 3
  /\ observed[2] = 2 /\ observed[3] = 2
  /\ Len(UidEvents) = 1
  /\ UidEvents[1].cycle = 2
  /\ UidEvents[1].uid = <<"A", "A", "B", "B", "C", "C", "D", "D">>

\* C24: whenever the most recent status notification is TagPresent, the
\* UID of the most recent UID notification is the UID of the tag the most
\* recent poll observed: no stale UID after one tag is replaced by another.
\* Between two cycles tag_uid still holds what the last poll read.
C24_FreshUid ==
  (mpc = "loop" /\ StatusEvents # <<>>
     /\ StatusEvents[Len(StatusEvents)].state = 2)
    => /\ UidEvents # <<>>
       /\ UidEvents[Len(UidEvents)].uid = tag_uid

\* C17: notifications are emitted in the order of the transitions.  The
\* status notifications come in the order of the cycles that observed the
\* transitions, and the UID notification of a transition into TagPresent
\* comes directly after the status notification of that same transition, so
\* before the status notification of any later one.
C17_NotificationOrder ==
  /\ \A i, j \in 1..Len(emitted) : i < j => emitted[i].cycle <= emitted[j].cycle
  /\ \A i, j \in 1..Len(StatusEvents) :
       i < j => StatusEvents[i].cycle < StatusEvents[j].cycle
  /\ \A k \in 1..Len(emitted) :
       emitted[k].sig = "tagUIDDetected" =>
         /\ k > 1
         /\ emitted[k - 1].sig = "statusChanged"
         /\ emitted[k - 1].cycle = emitted[k].cycle
         /\ emitted[k - 1].state = 2

\* ReaderIdle, TagPresent, NoReader: status 1, status 2, the UID, status 0.
C17_Witness ==
  /\ observed = <<1, 2, 0>>
  /\ Len(emitted) = 4
  /\ emitted[1] = StatusEvent(1, 1)
  /\ emitted[2] = StatusEvent(2, 2)
  /\ emitted[3].sig = "tagUIDDetected" /\ emitted[3].cycle = 2
  /\ emitted[4] = StatusEvent(3, 0)

\* Something went wrong in the cycle: the enumeration raised, a call of the
\* transaction raised, or the status word is not 90 00.
CycleFailed(o) ==
  \/ o.readers = "raise"
  \/ TransactionRaised(o)
  \/ (o.transmit = "ok" /\ o.sw # <<144, 0>>)

\* C18: no error ends the polling loop.  Whatever the enumeration, connect,
\* transmit and disconnect raise and whatever status word is returned, the
\* cycle ends with a downgraded state (NoReader or ReaderIdle) and the
\* thread is back at the loop test with every cycle it began completed; the
\* loop has ended only if stop() was called.  (A behaviour holds MaxPolls
\* cycles: after them the thread stays at the loop test, it is not done.)
C18_LoopSurvivesErrors ==
  /\ mpc \in {"loop", "readers", "connect", "transmit", "disconnect", "emit",
              "done"}
  /\ (mpc = "emit" /\ CycleFailed(obs) => new_state \in {0, 1})
  /\ (mpc \in {"loop", "done"} => Len(observed) = polls)
  /\ (mpc = "done" => ~running /\ stop_at # NoStop)

\* Four cycles in a row that failed, each in another way, and the thread
\* is back at the loop test, still running.
C18_Witness ==
  /\ mpc = "loop" /\ running
  /\ polls = 4
  /\ observed = <<0, 1, 1, 1>>
  /\ obs.transmit = "ok" /\ obs.sw = <<99, 0>> /\ obs.disconnect = "raise"

\* The cycle during which stop() was called emitted what its state asks for.
StoppedCycleEmitted ==
  LET c == stop_at.poll
  IN  (stop_at.pc \notin {None, "loop"} /\ c >= 1) =>
        /\ Len(observed) >= c
        /\ (c = 1 \/ observed[c] # observed[c - 1]) =>
              \E k \in 1..Len(emitted) :
                 emitted[k] = StatusEvent(c, observed[c])

\* C19: stopping is cooperative.  After stop() the cycle in progress runs to
\* its end (its transaction is carried out and its notifications are
\* emitted), no new cycle is started once the loop test is reached, and the
\* loop then ends.
C19_CooperativeStop ==
  /\ [](~running => polls = stop_at.poll)
  /\ [](mpc = "done" =>
          /\ ~running
          /\ Len(observed) = polls
          /\ StoppedCycleEmitted)
  /\ (~running ~> mpc = "done")

\* stop() came while the second cycle was about to transmit: the cycle went
\* on to find a tag, emitted the status and the UID, and the loop ended
\* without a third cycle.
C19_Witness ==
  /\ mpc = "done"
  /\ stop_at = [pc |-> "transmit", poll |-> 2]
  /\ polls = 2
  /\ observed = <<1, 2>>
  /\ Len(emitted) = 3
  /\ emitted[2] = StatusEvent(2, 2)
  /\ emitted[3].sig = "tagUIDDetected" /\ emitted[3].cycle = 2

(***************************************************************************)
(* NFCMonitor.write_to_tag: one call, one action per step.  The outcomes   *)
(* of readers(), connect(), transmit() and disconnect() are drawn as in    *)
(* the polling loop.  wobs records, for each page a connection was created *)
(* for, what the transport answered.                                       *)
(***************************************************************************)
UpperLetters ==
  <<"A", "B", "C", "D", "E", "F", "G", "H", "I", "J", "K", "L", "M",
    "N", "O", "P", "Q", "R", "S", "T", "U", "V", "W", "X", "Y", "Z">>

\* The printable ASCII characters, from U+0020 to U+007E; the quotation
\* mark, the backslash and the grave accent are written by their numbers.
Ascii ==
  <<" ", "!", "U+34", "#", "$", "%", "&", "'", "(", ")", "*", "+", ",", "-",
    ".", "/", "0", "1", "2", "3", "4", "5", "6", "7", "8", "9", ":", ";",
    "<", "=", ">", "?", "@", "A", "B", "C", "D", "E", "F", "G", "H", "I",
    "J", "K", "L", "M", "N", "O", "P", "Q", "R", "S", "T", "U", "V", "W",
    "X", "Y", "Z", "[", "U+92", "]", "^", "_", "U+96", "a", "b", "c", "d", "e",
    "f", "g", "h", "i", "j", "k", "l", "m", "n", "o", "p", "q", "r", "s",
    "t", "u", "v", "w", "x", "y", "z", "{", "|", "}", "~">>

\* ord(ch) for the characters the payloads hold; "e'" stands for U+00E9.
ord(ch) ==
  IF ch \in DigitChars THEN 48 + (CHOOSE k \in 0..9 : DigitOf[((k + 9) % 10) + 1] = ch)
  ELSE IF ch = "-" THEN 45
  ELSE IF ch = " " THEN 32
  ELSE IF ch = "e'" THEN 233
  ELSE IF \E k \in 1..26 : UpperLetters[k] = ch
  THEN 64 + (CHOOSE k \in 1..26 : UpperLetters[k] = ch)
  ELSE 31 + (CHOOSE k \in 1..Len(Ascii) : Ascii[k] = ch)

\* chr(cp): the character of a code point of a decoded str; a character
\* outside printable ASCII is written by its number.
chr(cp) ==
  IF cp >= 32 /\ cp <= 126 THEN Ascii[cp - 31]
  ELSE IF cp = 233 THEN "e'"
  ELSE IF cp = 9 THEN "\t"
  ELSE IF cp = 10 THEN "\n"
  ELSE "U+" \o ToString(cp)

\* One code point in UTF-8 (one to three bytes).
utf8_char(cp) ==
  IF cp < 128 THEN <<cp>>
  ELSE IF cp < 2048 THEN <<192 + (cp \div 64), 128 + (cp % 64)>>
  ELSE <<224 + (cp \div 4096), 128 + ((cp \div 64) % 64), 128 + (cp % 64)>>

\* data.encode('utf-8')
encode_utf8(str) == Join([i \in 1..Len(str) |-> utf8_char(ord(str[i]))])

\* The chunking that drops a last chunk of fewer than four bytes.
PagesFloor(data_bytes) ==
  [k \in 1..(Len(data_bytes) \div PageSize) |->
     Slice(data_bytes, PageSize * (k - 1), PageSize * k)]

\* [data_bytes[i:i + page_size] for i in range(0, len(data_bytes), page_size)]
Pages(data_bytes) ==
  [k \in 1..((Len(data_bytes) + PageSize - 1) \div PageSize) |->
     Slice(data_bytes, PageSize * (k - 1), PageSize * k)]

\* The record of an encoded card, repeated as often as the length asks.
SampleRecord ==
  <<"Y", "G", "0", "1">> \o ljust(DigitRun(5), 10, "-")
    \o ljust(<<"0">>, 8, "-") \o <<"0", "0", "0", "0">>
    \o <<"L", "O", "B", "-">> \o <<"E", "N">> \o <<"0", "0", "1">>
    \o <<"U", "R">> \o <<"1", "E">> \o Terminator

PayloadOf(n) == [i \in 1..n |-> SampleRecord[((i - 1) % 42) + 1]]

Payloads ==
  { PayloadOf(n) : n \in 0..MaxPayloadLen }
    \cup { <<"C", "A", "F", "e'", "S">> }

NoPageObs(page) ==
  [page |-> page, connect |-> None, command |-> <<>>, transmit |-> None,
   sw |-> <<>>, disconnect |-> None]

\* The last page padded with the letter X instead of zero bytes.
PadPageFiller(page_data) ==
  IF Len(page_data) < PageSize THEN ljust(page_data, PageSize, 88)
  ELSE page_data

\* if len(page_data) < page_size: page_data = page_data.ljust(page_size, b'\x00')
PadPage(page_data) ==
  IF Len(page_data) < PageSize THEN ljust(page_data, PageSize, 0)
  ELSE page_data

\* Every chunk sent to the first page.
WriteCommandFirstPage(page_number, page_data) ==
  <<255, 214, 0, StartPage, 4>> \o page_data

\* command = [0xFF, 0xD6, 0x00, page_number, 0x04] + list(page_data)
WriteCommand(page_number, page_data) ==
  <<255, 214, 0, page_number, 4>> \o page_data

\* The tag behind the reader: an update-binary command that is answered
\* 90 00 has stored its data bytes in the page it names; any other answer
\* leaves the memory as it was.
TagUpdate(t, command, sw) ==
  IF sw = <<144, 0>> /\ command[4] \in DOMAIN t
  THEN [t EXCEPT ![command[4]] = SubSeq(command, 6, Len(command))]
  ELSE t

\* A tag that holds something else in every page: "old" and the page number.
OldTag == [p \in TagPages |-> <<111, 108, 100, p>>]

WriteTags == {BlankTag, OldTag}

WriteOk == [ok |-> TRUE, msg |-> "Write successful.", page |-> <<>>, sw |-> <<>>]

\* "Write failed: {e}": page and sw are what the text of e names.
WriteFailed(msg, page, sw) ==
  [ok |-> FALSE, msg |-> msg, page |-> page, sw |-> sw]

\* The status test that looks at sw1 only.
WriteStatusOkSw1(sw) == sw[1] = 144

\* if sw1 == 0x90 and sw2 == 0x00
WriteStatusOk(sw) == sw[1] = 144 /\ sw[2] = 0

SetObs(field, value) == [wobs EXCEPT ![Len(wobs)][field] = value]

\* write_to_tag(data) is called
WriteCall ==
  /\ wpc = "idle"
  /\ \E d \in Payloads : wdata' = d
  /\ wpc' = "readers"
  /\ UNCHANGED <<wreaders, wpages, wi, wconn, wobs, wconsole, wresult>>

\* write_to_tag(d) is entered.
WriteCallWith(d) ==
  /\ wpc = "idle"
  /\ wdata' = d
  /\ wpc' = "readers"
  /\ UNCHANGED <<wreaders, wpages, wi, wconn, wobs, wconsole, wresult>>

\* available_readers = readers(); no reader raises; then the chunking
WriteReaders ==
  /\ wpc = "readers"
  /\ \/ /\ wreaders' = "empty"
        /\ wresult' = Append(wresult,
                        WriteFailed("No smart card readers found!", <<>>, <<>>))
        /\ wpc' = "done"
        /\ UNCHANGED wpages
     \/ /\ wreaders' = "raise"
        /\ wresult' = Append(wresult, WriteFailed("readers", <<>>, <<>>))
        /\ wpc' = "done"
        /\ UNCHANGED wpages
     \/ /\ wreaders' = "present"
        /\ wpages' = Pages(encode_utf8(wdata))
        /\ wpc' = "loop"
        /\ UNCHANGED wresult
  /\ wi' = 0
  /\ UNCHANGED <<wdata, wconn, wobs, wconsole>>

\* for i, page_data in enumerate(pages): the next page gets a connection
\* object; after the last page "Write successful." is emitted.
WriteLoop ==
  /\ wpc = "loop"
  /\ IF wi < Len(wpages)
     THEN /\ wobs' = Append(wobs, NoPageObs(StartPage + wi))
          /\ wpc' = "connect"
          /\ UNCHANGED wresult
     ELSE /\ wresult' = Append(wresult, WriteOk)
          /\ wpc' = "done"
          /\ UNCHANGED wobs
  /\ UNCHANGED <<wdata, wreaders, wpages, wi, wconn, wconsole>>

\* connect() outside the outer try: its exception leaves write_to_tag.
WriteConnectEscapes ==
  /\ wpc = "connect"
  /\ \/ /\ wobs' = SetObs("connect", "ok")
        /\ wconn' = TRUE
        /\ wpc' = "transmit"
        /\ UNCHANGED wresult
     \/ /\ wobs' = SetObs("connect", "raise")
        /\ wpc' = "raised"
        /\ UNCHANGED <<wconn, wresult>>
  /\ UNCHANGED <<wdata, wreaders, wpages, wi, wconsole>>

\* connection.connect(): an exception goes to the outer except as it is
WriteConnect ==
  /\ wpc = "connect"
  /\ \/ /\ wobs' = SetObs("connect", "ok")
        /\ wconn' = TRUE
        /\ wpc' = "transmit"
        /\ UNCHANGED wresult
     \/ /\ wobs' = SetObs("connect", "raise")
        /\ wresult' = Append(wresult, WriteFailed("connect", <<>>, <<>>))
        /\ wpc' = "done"
        /\ UNCHANGED wconn
  /\ UNCHANGED <<wdata, wreaders, wpages, wi, wconsole>>

\* The command for the page is built and transmitted; the tag stores the
\* page when it answers 90 00; then the status test.
WriteTransmit ==
  /\ wpc = "transmit"
  /\ LET command == WriteCommand(StartPage + wi, PadPage(wpages[wi + 1]))
     IN
     \/ /\ wobs' = [wobs EXCEPT ![Len(wobs)].transmit = "raise",
                                ![Len(wobs)].command = command]
        /\ wpc' = "disconnect_exception"
        /\ UNCHANGED <<wconsole, tag>>
     \/ \E sw \in TxStatusWords :
          /\ wobs' = [wobs EXCEPT ![Len(wobs)].transmit = "ok",
                                  ![Len(wobs)].command = command,
                                  ![Len(wobs)].sw = sw]
          /\ tag' = TagUpdate(tag, command, sw)
          /\ IF WriteStatusOk(sw)
             THEN /\ wconsole' = Append(wconsole, StartPage + wi)
                  /\ wpc' = "disconnect"
             ELSE /\ wpc' = "disconnect_status"
                  /\ UNCHANGED wconsole
  /\ UNCHANGED <<wdata, wreaders, wpages, wi, wconn, wresult>>

\* connection.disconnect() before the page's own exception is raised: the
\* exception that reaches the outer except names the page, unless
\* disconnect() itself raised.
WriteDisconnectOnError ==
  /\ wpc \in {"disconnect_exception", "disconnect_status"}
  /\ \/ /\ wobs' = SetObs("disconnect", "ok")
        /\ wconn' = FALSE
        /\ wresult' = Append(wresult,
             IF wpc = "disconnect_exception"
             THEN WriteFailed("Exception transmitting to page",
                              <<StartPage + wi>>, <<>>)
             ELSE WriteFailed("Error writing to tag at page",
                              <<StartPage + wi>>, wobs[Len(wobs)].sw))
     \/ /\ wobs' = SetObs("disconnect", "raise")
        /\ wresult' = Append(wresult, WriteFailed("disconnect", <<>>, <<>>))
        /\ UNCHANGED wconn
  /\ wpc' = "done"
  /\ UNCHANGED <<wdata, wreaders, wpages, wi, wconsole>>

\* connection.disconnect(); time.sleep(0.2): on to the next page
WriteDisconnect ==
  /\ wpc = "disconnect"
  /\ \/ /\ wobs' = SetObs("disconnect", "ok")
        /\ wconn' = FALSE
        /\ wi' = wi + 1
        /\ wpc' = "loop"
        /\ UNCHANGED wresult
     \/ /\ wobs' = SetObs("disconnect", "raise")
        /\ wresult' = Append(wresult, WriteFailed("disconnect", <<>>, <<>>))
        /\ wpc' = "done"
        /\ UNCHANGED <<wconn, wi>>
  /\ UNCHANGED <<wdata, wreaders, wpages, wconsole>>

InitWrite ==
  /\ WriteIdle /\ CodecIdle /\ MonitorIdle /\ ReadIdle /\ GuiIdle
  /\ tag0 \in WriteTags /\ tag = tag0

NextWrite ==
  \/ WriteCall /\ UNCHANGED <<codecVars, monitorVars, tagVars, readVars, guiVars>>
  \/ WriteReaders /\ UNCHANGED <<codecVars, monitorVars, tagVars, readVars, guiVars>>
  \/ WriteLoop /\ UNCHANGED <<codecVars, monitorVars, tagVars, readVars, guiVars>>
  \/ WriteConnect /\ UNCHANGED <<codecVars, monitorVars, tagVars, readVars, guiVars>>
  \/ WriteTransmit /\ UNCHANGED <<codecVars, monitorVars, tag0, readVars, guiVars>>
  \/ WriteDisconnectOnError /\ UNCHANGED <<codecVars, monitorVars, tagVars, readVars, guiVars>>
  \/ WriteDisconnect /\ UNCHANGED <<codecVars, monitorVars, tagVars, readVars, guiVars>>

SpecWrite == InitWrite /\ [][NextWrite]_vars

(***************************************************************************)
(* Properties of write_to_tag, checked under SpecWrite.                    *)
(***************************************************************************)
\* The page's transaction failed: a step raised, or the status word
\* returned is not 90 00.
PageFailed(o) ==
  \/ o.connect = "raise"
  \/ o.transmit = "raise"
  \/ (o.transmit = "ok" /\ o.sw # <<144, 0>>)
  \/ o.disconnect = "raise"

\* The pages attempted are 4, 5, 6, ... in this order, and a page is only
\* attempted when no page before it failed.
FailFastOrder ==
  /\ \A i \in 1..Len(wobs) : wobs[i].page = 4 + (i - 1)
  /\ \A i \in 1..(Len(wobs) - 1) : ~PageFailed(wobs[i])

\* C10 as stated: pages are written in ascending order from page 4, and at
\* the first page p that fails (status word not 90 00, or an exception) the
\* write stops: every page before p was reported written, the failure
\* result names page p (and its status word), no later page is attempted.
C10_FailFast_Original ==
  /\ FailFastOrder
  /\ (wpc = "done" /\ wobs # <<>> /\ PageFailed(wobs[Len(wobs)])) =>
        LET last == wobs[Len(wobs)]
        IN  /\ \A q \in 4..(last.page - 1) :
                 \E i \in 1..Len(wconsole) : wconsole[i] = q
            /\ Len(wresult) = 1
            /\ ~wresult[1].ok
            /\ wresult[1].page = <<last.page>>
            /\ (last.transmit = "ok" => wresult[1].sw = last.sw)

\* C10 (amended): write_to_tag is fail-fast.  Pages are attempted in
\* ascending order starting at page 4, and at the first page p at which
\* connect, transmit or disconnect raises or the status word is not 90 00
\* the write stops: every page before p was reported written, exactly one
\* failure result is emitted, and no page after p is ever attempted.  The
\* failure result names page p (with the status word, when one was
\* returned) when transmit raised or returned a status word other than
\* 90 00 and the connection was then closed without error; when connect or
\* disconnect raises, the result names no page.
C10_FailFast ==
  /\ FailFastOrder
  /\ (wpc = "done" /\ wobs # <<>> /\ PageFailed(wobs[Len(wobs)])) =>
        LET last == wobs[Len(wobs)]
            named == /\ last.connect = "ok"
                     /\ last.disconnect = "ok"
                     /\ (last.transmit = "raise" \/ last.sw # <<144, 0>>)
        IN  /\ \A q \in 4..(last.page - 1) :
                 \E i \in 1..Len(wconsole) : wconsole[i] = q
            /\ \A i \in 1..Len(wconsole) : wconsole[i] \in 4..last.page
            /\ Len(wresult) = 1
            /\ ~wresult[1].ok
            /\ IF named
               THEN /\ wresult[1].page = <<last.page>>
                    /\ wresult[1].sw = last.sw
               ELSE /\ wresult[1].page = <<>>
                    /\ wresult[1].sw = <<>>

\* Page 6 of 12 answered 63 00: pages 4 and 5 were reported written, the
\* failure names page 6 and 63 00, and pages 7 to 15 were never attempted.
C10_Witness ==
  /\ wpc = "done"
  /\ Len(wpages) = 12
  /\ Len(wobs) = 3
  /\ wobs[3].page = 6
  /\ wobs[3].sw = <<99, 0>>
  /\ wconsole = <<4, 5>>
  /\ wresult = <<WriteFailed("Error writing to tag at page", <<6>>, <<99, 0>>)>>

\* The data bytes of the update commands transmitted, in order.
WrittenBytes ==
  Join([i \in 1..Len(wobs) |-> Slice(wobs[i].command, 5, Len(wobs[i].command))])

\* Chunk i (from 0) of bs: bytes 4i+1 .. 4i+4, zero where bs has ended.
ExpectedChunk(bs, i) ==
  [j \in 1..4 |-> IF 4 * i + j <= Len(bs) THEN bs[4 * i + j] ELSE 0]

\* The number of chunks of n bytes: the least k with 4k >= n.
ExpectedPages(n) == CHOOSE k \in 0..n : 4 * k >= n /\ 4 * (k - 1) < n

WriteSucceeded == wpc = "done" /\ wresult = <<WriteOk>>

\* C13 as stated: the bytes written by write_to_tag(payload) are the payload
\* followed by two filler characters, so that a 42-character record
\* occupies 44 bytes in pages 4 to 14 and the tag holds the record and the
\* filler suffix.
C13_WrittenBytes_Original ==
  WriteSucceeded =>
    LET bs == encode_utf8(wdata)
    IN  Slice(WrittenBytes, 0, Len(bs) + 2) = bs \o <<88, 88>>

\* C13 (amended): the bytes written by write_to_tag(payload) are the UTF-8
\* bytes of the payload followed by zero bytes up to the next multiple of
\* four; no filler character is appended.  A 42-character record occupies
\* pages 4 to 14: its 42 bytes and two zero bytes.
C13_WrittenBytes ==
  WriteSucceeded =>
    LET bs == encode_utf8(wdata)
        n  == Len(bs)
    IN  /\ Len(WrittenBytes) = 4 * ExpectedPages(n)
        /\ Slice(WrittenBytes, 0, n) = bs
        /\ \A i \in (n + 1)..Len(WrittenBytes) : WrittenBytes[i] = 0
        /\ (wdata = SampleRecord =>
              /\ [i \in 1..Len(wobs) |-> wobs[i].page] =
                   <<4, 5, 6, 7, 8, 9, 10, 11, 12, 13, 14>>
              /\ tag[14] = <<88, 88, 0, 0>>)

\* The 42 characters of a record were written: eleven pages, the last one
\* the two final characters of the record and two zero bytes.
C13_Witness ==
  /\ WriteSucceeded
  /\ wdata = SampleRecord
  /\ Len(WrittenBytes) = 44
  /\ wobs[11].page = 14
  /\ wobs[11].command = <<255, 214, 0, 14, 4, 88, 88, 0, 0>>

\* C14: write_to_tag splits the n bytes of the payload into ceil(n/4)
\* consecutive chunks of four bytes, zero-pads only the last one, and
\* writes chunk i to page 4 + i with one command a page.  After a write
\* that succeeded, page 4 + i holds exactly chunk i, exactly ceil(n/4)
\* write transactions were issued, and no other page was changed.
C14_Chunking ==
  WriteSucceeded =>
    LET bs == encode_utf8(wdata)
        k  == ExpectedPages(Len(bs))
    IN  /\ Len(wobs) = k
        /\ \A i \in 0..(k - 1) :
             /\ wobs[i + 1].page = 4 + i
             /\ wobs[i + 1].command =
                  <<255, 214, 0, 4 + i, 4>> \o ExpectedChunk(bs, i)
             /\ tag[4 + i] = ExpectedChunk(bs, i)
        /\ \A q \in TagPages : q >= 4 + k => tag[q] = tag0[q]

\* Five characters, six bytes: two pages, the second one padded, the third
\* page as it was.
C14_Witness ==
  /\ WriteSucceeded
  /\ wdata = <<"C", "A", "F", "e'", "S">>
  /\ tag0 = OldTag
  /\ Len(wobs) = 2
  /\ tag[4] = <<67, 65, 70, 195>>
  /\ tag[5] = <<169, 83, 0, 0>>
  /\ tag[6] = <<111, 108, 100, 6>>

\* C15: write_to_tag does not roll back.  When a write fails at page p,
\* the pages 4 to p - 1 keep the chunks just written, the pages after p keep
\* what they held before, and no transaction has been issued that writes a
\* page a second time.
C15_NoRollback ==
  (wpc = "done" /\ wobs # <<>> /\ PageFailed(wobs[Len(wobs)])) =>
    LET bs == encode_utf8(wdata)
        p  == wobs[Len(wobs)].page
    IN  /\ \A q \in 4..(p - 1) : tag[q] = ExpectedChunk(bs, q - 4)
        /\ \A q \in TagPages : q > p => tag[q] = tag0[q]
        /\ \A i, j \in 1..Len(wobs) :
             (i # j /\ wobs[i].command # <<>> /\ wobs[j].command # <<>>)
               => wobs[i].command[4] # wobs[j].command[4]

\* A record is written over older contents and page 7 answers 63 00: pages
\* 4 to 6 hold the record's first twelve bytes, pages 7 and up the old
\* contents.
C15_Witness ==
  /\ wpc = "done"
  /\ wdata = SampleRecord
  /\ tag0 = OldTag
  /\ Len(wobs) = 4
  /\ wobs[4].sw = <<99, 0>>
  /\ ~wresult[1].ok
  /\ tag[4] = <<89, 71, 48, 49>>
  /\ tag[6] # tag0[6]
  /\ tag[7] = <<111, 108, 100, 7>>
  /\ tag[14] = <<111, 108, 100, 14>>

\* The page's transaction was carried out to its end with status 90 00.
PageWritten(o) ==
  /\ o.connect = "ok" /\ o.transmit = "ok" /\ o.sw = <<144, 0>>
  /\ o.disconnect = "ok"

\* C26 as stated: every call of write_to_tag emits exactly one writeResult
\* and lets no exception escape; the result is "Write successful." if and
\* only if a reader was found and every page transaction returned status
\* 90 00, and a failure message otherwise.
C26_OneWriteResult_Original ==
  /\ wpc # "raised"
  /\ (wpc = "done" =>
        /\ Len(wresult) = 1
        /\ wresult[1].ok <=>
             /\ wreaders = "present"
             /\ Len(wobs) = ExpectedPages(Len(encode_utf8(wdata)))
             /\ \A i \in 1..Len(wobs) : wobs[i].sw = <<144, 0>>)

\* C26 (amended): every call of write_to_tag emits exactly one writeResult
\* and lets no exception escape.  The result is "Write successful." if and
\* only if a reader was found and, for every page of the payload, connect,
\* transmit and disconnect returned without raising and the status word was
\* 90 00; otherwise it is a failure message, also when no reader is
\* enumerated, in which case no transaction is issued.
C26_OneWriteResult ==
  /\ wpc # "raised"
  /\ (wpc # "done" => wresult = <<>>)
  /\ (wpc = "done" =>
        /\ Len(wresult) = 1
        /\ wresult[1].ok <=>
             /\ wreaders = "present"
             /\ Len(wobs) = ExpectedPages(Len(encode_utf8(wdata)))
             /\ \A i \in 1..Len(wobs) : PageWritten(wobs[i])
        /\ (wresult[1].ok => wresult[1].msg = "Write successful.")
        /\ (wreaders # "present" => wobs = <<>>))

\* Every page of a record answered 90 00, and disconnect raised after the
\* last one: one result, a failure.
C26_Witness ==
  /\ wpc = "done"
  /\ wdata = SampleRecord
  /\ Len(wobs) = 11
  /\ \A i \in 1..11 : wobs[i].sw = <<144, 0>>
  /\ wobs[11].disconnect = "raise"
  /\ Len(wresult) = 1 /\ ~wresult[1].ok

(***************************************************************************)
(* NFCMonitor.read_tag: one call, one action per step.  The outcomes of    *)
(* readers(), connect(), transmit() and disconnect() are drawn as in the   *)
(* polling loop.  robs records, for each page a connection was created     *)
(* for, what the transport answered.                                       *)
(***************************************************************************)
\* Bound: the number of pages of one read that answer a status word other
\* than 90 00.
MaxReadFailures == 2

\* for page in range(4, 16)
FirstReadPage == 4

EndReadPage == 16

\* command = [0xFF, 0xB0, 0x00, page, 0x04]
ReadCommand(page) == <<255, 176, 0, page, 4>>

\* The tag behind the reader: a read-binary command answered with sw1 = 90
\* carries the four bytes of the page it names; any other answer carries no
\* bytes.
TagRead(t, command, sw) ==
  IF sw[1] = 144 /\ command[4] \in DOMAIN t THEN t[command[4]] ELSE <<>>

\* The status test that looks at sw1 only.
ReadStatusOkSw1(sw) == sw[1] = 144

\* if sw1 == 0x90 and sw2 == 0x00
ReadStatusOk(sw) == sw[1] = 144 /\ sw[2] = 0

\* bytes.decode("utf-8"), strict: the length of the well-formed sequence
\* that starts at bs[i], or 0 when there is none.
Utf8Len(bs, i) ==
  LET b     == bs[i]
      at(k) == IF i + k <= Len(bs) THEN bs[i + k] ELSE 0
      cont(k) == at(k) \in 128..191
  IN  IF b < 128 THEN 1
      ELSE IF b \in 194..223 THEN (IF cont(1) THEN 2 ELSE 0)
      ELSE IF b \in 224..239
           THEN LET second == IF b = 224 THEN at(1) \in 160..191
                              ELSE IF b = 237 THEN at(1) \in 128..159
                              ELSE cont(1)
                IN  IF second /\ cont(2) THEN 3 ELSE 0
      ELSE IF b \in 240..244
           THEN LET second == IF b = 240 THEN at(1) \in 144..191
                              ELSE IF b = 244 THEN at(1) \in 128..143
                              ELSE cont(1)
                IN  IF second /\ cont(2) /\ cont(3) THEN 4 ELSE 0
      ELSE 0

\* The code point of the well-formed sequence of n bytes that starts at bs[i].
Utf8CodePoint(bs, i, n) ==
  IF n = 1 THEN bs[i]
  ELSE IF n = 2 THEN (bs[i] % 32) * 64 + (bs[i + 1] % 64)
  ELSE IF n = 3
       THEN (bs[i] % 16) * 4096 + (bs[i + 1] % 64) * 64 + (bs[i + 2] % 64)
  ELSE (bs[i] % 8) * 262144 + (bs[i + 1] % 64) * 4096
         + (bs[i + 2] % 64) * 64 + (bs[i + 3] % 64)

\* The str (a sequence of code points) of bs from byte i on, or
\* UnicodeDecodeError.
RECURSIVE decode_from(_, _)
decode_from(bs, i) ==
  IF i > Len(bs) THEN [ok |-> TRUE, str |-> <<>>]
  ELSE LET n == Utf8Len(bs, i)
       IN  IF n = 0 THEN [ok |-> FALSE, str |-> <<>>]
           ELSE LET rest == decode_from(bs, i + n)
                IN  IF rest.ok
                    THEN [ok |-> TRUE,
                          str |-> <<Utf8CodePoint(bs, i, n)>> \o rest.str]
                    ELSE rest

decode_utf8(bs) == decode_from(bs, 1)

\* bytes.hex(): two lower-case hex digits a byte, as code points.
hex(bs) ==
  LET digit(d) == IF d < 10 THEN 48 + d ELSE 87 + d
  IN  Join([i \in 1..Len(bs) |-> <<digit(bs[i] \div 16), digit(bs[i] % 16)>>])

\* data_str = full_data.decode("utf-8").rstrip("\x00"), or full_data.hex()
\* on UnicodeDecodeError
DataStr(bs) ==
  LET d == decode_utf8(bs)
  IN  IF d.ok THEN rstripSet(d.str, {0}) ELSE hex(bs)

ReadNoReader == [msg |-> "No NFC reader found.", e |-> None, str |-> <<>>]

\* "Error during tag read: {e}": e is the call that raised.
ReadError(e) == [msg |-> "Error during tag read", e |-> e, str |-> <<>>]

ReadData(str) == [msg |-> "data_str", e |-> None, str |-> str]

NoReadObs(page) ==
  [page |-> page, connect |-> None, transmit |-> None, response |-> <<>>,
   sw |-> <<>>, disconnect |-> None]

SetReadObs(field, value) == [robs EXCEPT ![Len(robs)][field] = value]

\* The pages so far that answered a status word other than 90 00.
ReadFailures ==
  Cardinality({i \in 1..Len(robs) : robs[i].sw \notin {<<>>, <<144, 0>>}})

\* An exception that leaves read_tag instead of being caught.
ReadExceptEscapes(e) == [result |-> <<>>, pc |-> "raised"]

\* except Exception as e: self.readTagResult.emit(f"Error during tag read: {e}")
ReadExcept(e) == [result |-> <<ReadError(e)>>, pc |-> "done"]

\* A tag that holds bs from page 4 on, zero bytes after them.
TagOf(bs) ==
  [p \in TagPages |->
     LET k == p - StartPage + 1
     IN  IF k <= Len(Pages(bs)) THEN PadPage(Pages(bs)[k])
         ELSE <<0, 0, 0, 0>>]

\* Tags to read: a written record, bytes that are not UTF-8, a two-byte
\* character across pages 4 and 5, and a blank tag.
ReadTags ==
  { TagOf(encode_utf8(SampleRecord)),
    TagOf(<<89, 71, 255, 254, 48, 49, 50, 51>>),
    TagOf(<<67, 65, 70, 195, 169, 83>>),
    BlankTag }

\* NFCReadThread.run: self.nfc_monitor.read_tag()
ReadCall ==
  /\ rpc = "idle"
  /\ rpc' = "readers"
  /\ UNCHANGED <<rpage, full_data, robs, rconsole, rresult>>

\* available_readers = readers(); no reader emits and returns; then
\* full_data = b"" and the loop begins
ReadReaders ==
  /\ rpc = "readers"
  /\ \/ /\ rresult' = Append(rresult, ReadNoReader)
        /\ rpc' = "done"
        /\ UNCHANGED <<rpage, full_data>>
     \/ /\ rresult' = rresult \o ReadExcept("readers").result
        /\ rpc' = ReadExcept("readers").pc
        /\ UNCHANGED <<rpage, full_data>>
     \/ /\ full_data' = <<>>
        /\ rpage' = FirstReadPage
        /\ rpc' = "loop"
        /\ UNCHANGED rresult
  /\ UNCHANGED <<robs, rconsole>>

\* for page in range(4, 16): the next page gets a connection object; after
\* the last page the buffer is decoded and emitted.
ReadLoop ==
  /\ rpc = "loop"
  /\ IF rpage < EndReadPage
     THEN /\ robs' = Append(robs, NoReadObs(rpage))
          /\ rpc' = "connect"
          /\ UNCHANGED rresult
     ELSE /\ rresult' = Append(rresult, ReadData(DataStr(full_data)))
          /\ rpc' = "done"
          /\ UNCHANGED robs
  /\ UNCHANGED <<rpage, full_data, rconsole>>

\* connection.connect(): an exception goes to the outer except
ReadConnect ==
  /\ rpc = "connect"
  /\ \/ /\ robs' = SetReadObs("connect", "ok")
        /\ rpc' = "transmit"
        /\ UNCHANGED rresult
     \/ /\ robs' = SetReadObs("connect", "raise")
        /\ rresult' = rresult \o ReadExcept("connect").result
        /\ rpc' = ReadExcept("connect").pc
  /\ UNCHANGED <<rpage, full_data, rconsole>>

\* response, sw1, sw2 = connection.transmit(command): an exception goes to
\* the outer except, past the disconnect
ReadTransmit ==
  /\ rpc = "transmit"
  /\ \/ /\ robs' = SetReadObs("transmit", "raise")
        /\ rresult' = rresult \o ReadExcept("transmit").result
        /\ rpc' = ReadExcept("transmit").pc
     \/ \E sw \in TxStatusWords :
          /\ sw # SW_OK => ReadFailures < MaxReadFailures
          /\ robs' = [robs EXCEPT
                        ![Len(robs)].transmit = "ok",
                        ![Len(robs)].response =
                            TagRead(tag, ReadCommand(rpage), sw),
                        ![Len(robs)].sw = sw]
          /\ rpc' = "disconnect"
          /\ UNCHANGED rresult
  /\ UNCHANGED <<rpage, full_data, rconsole>>

\* The status test that gives up the read at the first page that fails.
ReadDisconnectFailFast ==
  /\ rpc = "disconnect"
  /\ \/ /\ robs' = SetReadObs("disconnect", "ok")
        /\ LET o == robs[Len(robs)]
           IN  IF ReadStatusOk(o.sw)
               THEN /\ full_data' = full_data \o o.response
                    /\ rconsole' = Append(rconsole,
                                     [page |-> rpage, ok |-> TRUE, sw |-> <<>>])
                    /\ rpage' = rpage + 1
                    /\ rpc' = "loop"
                    /\ UNCHANGED rresult
               ELSE /\ rconsole' = Append(rconsole,
                                     [page |-> rpage, ok |-> FALSE, sw |-> o.sw])
                    /\ rresult' = Append(rresult, ReadError("status"))
                    /\ rpc' = "done"
                    /\ UNCHANGED <<full_data, rpage>>
     \/ /\ robs' = SetReadObs("disconnect", "raise")
        /\ rresult' = rresult \o ReadExcept("disconnect").result
        /\ rpc' = ReadExcept("disconnect").pc
        /\ UNCHANGED <<rpage, full_data, rconsole>>

\* connection.disconnect(), then the status test: 90 00 appends the
\* response to full_data, anything else reports the page failed; in both
\* cases the loop goes on.  An exception goes to the outer except.
ReadDisconnect ==
  /\ rpc = "disconnect"
  /\ \/ /\ robs' = SetReadObs("disconnect", "ok")
        /\ LET o == robs[Len(robs)]
           IN  IF ReadStatusOk(o.sw)
               THEN /\ full_data' = full_data \o o.response
                    /\ rconsole' = Append(rconsole,
                                     [page |-> rpage, ok |-> TRUE, sw |-> <<>>])
               ELSE /\ rconsole' = Append(rconsole,
                                     [page |-> rpage, ok |-> FALSE, sw |-> o.sw])
                    /\ UNCHANGED full_data
        /\ rpage' = rpage + 1
        /\ rpc' = "loop"
        /\ UNCHANGED rresult
     \/ /\ robs' = SetReadObs("disconnect", "raise")
        /\ rresult' = rresult \o ReadExcept("disconnect").result
        /\ rpc' = ReadExcept("disconnect").pc
        /\ UNCHANGED <<rpage, full_data, rconsole>>

InitRead ==
  /\ ReadIdle /\ CodecIdle /\ MonitorIdle /\ WriteIdle /\ GuiIdle
  /\ tag0 \in ReadTags /\ tag = tag0

NextRead ==
  \/ ReadCall /\ UNCHANGED <<codecVars, monitorVars, writeVars, tagVars, guiVars>>
  \/ ReadReaders /\ UNCHANGED <<codecVars, monitorVars, writeVars, tagVars, guiVars>>
  \/ ReadLoop /\ UNCHANGED <<codecVars, monitorVars, writeVars, tagVars, guiVars>>
  \/ ReadConnect /\ UNCHANGED <<codecVars, monitorVars, writeVars, tagVars, guiVars>>
  \/ ReadTransmit /\ UNCHANGED <<codecVars, monitorVars, writeVars, tagVars, guiVars>>
  \/ ReadDisconnect /\ UNCHANGED <<codecVars, monitorVars, writeVars, tagVars, guiVars>>

SpecRead == InitRead /\ [][NextRead]_vars

(***************************************************************************)
(* Properties of read_tag, checked under SpecRead.                         *)
(***************************************************************************)
\* The pages attempted so far are 4, 5, 6, ... in this order, each once.
ReadOrder == \A i \in 1..Len(robs) : robs[i].page = 4 + (i - 1)

\* The page answered a status word, and not 90 00.
StatusFailed(o) == o.transmit = "ok" /\ o.sw # <<144, 0>>

\* C11 as stated: a page whose read transaction fails (a transport error or
\* a status word other than 90 00) is skipped and every later page up to 15
\* is still attempted, so that a read that found a reader attempts each of
\* the pages 4 to 15 once and ends with the decoded data.
C11_SkipAndContinue_Original ==
  /\ ReadOrder
  /\ (rpc \in {"done", "raised"} /\ robs # <<>>) =>
        /\ Len(robs) = 12
        /\ Len(rresult) = 1
        /\ rresult[1].msg = "data_str"

\* C11 (amended): read_tag tolerates a page that answers a status word
\* other than 90 00: the page is skipped, it is not retried, and every later
\* page up to 15 is still attempted.  A page at which connect, transmit or
\* disconnect raises ends the read: no later page is attempted and the
\* result is the error message.
C11_SkipAndContinue ==
  /\ ReadOrder
  /\ \A i \in 1..(Len(robs) - 1) : ~TransactionRaised(robs[i])
  /\ (rpc \in {"done", "raised"} /\ robs # <<>>) =>
        /\ Len(rresult) = 1
        /\ IF TransactionRaised(robs[Len(robs)])
           THEN rresult[1].msg = "Error during tag read"
           ELSE /\ Len(robs) = 12
                /\ rresult[1].msg = "data_str"

\* Pages 6 and 9 answered 63 00 and 90 01, all twelve pages were attempted
\* and the read ended with data.
C11_Witness ==
  /\ rpc = "done"
  /\ Len(robs) = 12
  /\ StatusFailed(robs[3]) /\ robs[3].page = 6 /\ robs[3].sw = <<99, 0>>
  /\ StatusFailed(robs[6]) /\ robs[6].page = 9 /\ robs[6].sw = <<144, 1>>
  /\ \A i \in 1..12 : ~TransactionRaised(robs[i])
  /\ Len(rresult) = 1 /\ rresult[1].msg = "data_str"

\* C12: every call of read_tag emits exactly one readTagResult, on every
\* path (no reader, all pages read, some pages failed, an exception of the
\* transport, bytes that do not decode), and no exception leaves it.
C12_OneResult ==
  /\ rpc # "raised"
  /\ (rpc = "done" => Len(rresult) = 1)
  /\ (rpc # "done" => rresult = <<>>)

\* Bytes that are not UTF-8 were read: the one result is their hex dump.
C12_Witness ==
  /\ rpc = "done"
  /\ Len(robs) = 12
  /\ ~decode_utf8(full_data).ok
  /\ Len(rresult) = 1
  /\ rresult[1].msg = "data_str"
  /\ Len(rresult[1].str) = 2 * Len(full_data)

\* The responses, in page order, of the pages that were disconnected and
\* had answered 90 00.
RECURSIVE SuccessBytes(_)
SuccessBytes(os) ==
  IF os = <<>> THEN <<>>
  ELSE LET o == os[Len(os)]
       IN  SuccessBytes(SubSeq(os, 1, Len(os) - 1))
             \o (IF o.disconnect = "ok" /\ o.sw = <<144, 0>>
                 THEN o.response ELSE <<>>)

\* C16 as stated: read_tag issues one read transaction for each of the
\* pages 4 to 15, ascending, and what it decodes and emits is the
\* concatenation, in page order, of the bytes of the pages that succeeded.
C16_ReadBuffer_Original ==
  /\ ReadOrder
  /\ (rpc \in {"done", "raised"} /\ robs # <<>>) =>
        /\ rpc = "done"
        /\ Len(robs) = 12
        /\ rresult = <<ReadData(DataStr(SuccessBytes(robs)))>>

\* C16 (amended): read_tag reads the pages in ascending order from page 4
\* and its buffer is the concatenation, in page order, of the bytes
\* returned by the pages that answered 90 00; a page with another status
\* word contributes no bytes (omitted, not zero-filled).  When no call of
\* the transport raises, one transaction is issued for each of the pages 4
\* to 15 and the buffer is decoded and emitted; when a call raises at some
\* page, no later page is read and the error message is emitted instead of
\* the buffer.  In no case does an exception leave read_tag.
C16_ReadBuffer ==
  /\ ReadOrder
  /\ rpc # "raised"
  /\ full_data = SuccessBytes(robs)
  /\ (rpc = "done" /\ robs # <<>>) =>
        IF TransactionRaised(robs[Len(robs)])
        THEN rresult = <<ReadError(
                 IF robs[Len(robs)].connect = "raise" THEN "connect"
                 ELSE IF robs[Len(robs)].transmit = "raise" THEN "transmit"
                 ELSE "disconnect")>>
        ELSE /\ Len(robs) = 12
             /\ rresult = <<ReadData(DataStr(SuccessBytes(robs)))>>

\* A written record is read and page 9 answers 90 01 with its four bytes:
\* the buffer holds the 44 bytes of the other pages, and 38 characters are
\* emitted once the zero bytes at the end are stripped.
C16_Witness ==
  /\ rpc = "done"
  /\ tag0 = TagOf(encode_utf8(SampleRecord))
  /\ Len(robs) = 12
  /\ \A i \in 1..12 : ~TransactionRaised(robs[i])
  /\ \A i \in 1..12 : StatusFailed(robs[i]) <=> i = 6
  /\ robs[6].page = 9 /\ robs[6].response # <<>>
  /\ Len(full_data) = 44
  /\ Len(rresult) = 1 /\ Len(rresult[1].str) = 38

(***************************************************************************)
(* Properties of the connections, across monitor, read_tag, write_to_tag.  *)
(***************************************************************************)
\* The transaction opened its connection and never called disconnect().
LeftOpen(o) == o.connect = "ok" /\ o.disconnect = None

\* C20: every transaction is its own connect/transmit/disconnect cycle.  In
\* the poll, in read_tag and in write_to_tag a connection that was opened
\* is disconnected before the same operation opens its next connection or
\* finishes, on every path, transmit errors and status words other than
\* 90 00 included.
C20_ConnectionClosed ==
  /\ (mpc \in {"emit", "loop", "done"} => ~LeftOpen(obs))
  /\ \A i \in 1..Len(robs) :
       (i < Len(robs) \/ rpc \in {"done", "raised"}) => ~LeftOpen(robs[i])
  /\ \A i \in 1..Len(wobs) :
       (i < Len(wobs) \/ wpc = "done") => ~LeftOpen(wobs[i])

(***************************************************************************)
(* A write followed by a read of the same tag: on_write_button_clicked     *)
(* hands write_to_tag an encoded record, and a read started afterwards     *)
(* returns what the tag holds in pages 4 to 15.                            *)
(***************************************************************************)
\* self.nfc_monitor.write_to_tag(self.encoded_card.get_encoded_data())
WriteRecord ==
  /\ WriteCall
  /\ wdata' = SampleRecord

\* A read started once the write has reported success.
ReadAfterWrite ==
  /\ WriteSucceeded
  /\ ReadCall

InitRoundTrip ==
  /\ WriteIdle /\ ReadIdle /\ CodecIdle /\ MonitorIdle /\ GuiIdle
  /\ tag0 \in WriteTags /\ tag = tag0

NextRoundTrip ==
  \/ WriteRecord /\ UNCHANGED <<codecVars, monitorVars, tagVars, readVars, guiVars>>
  \/ WriteReaders /\ UNCHANGED <<codecVars, monitorVars, tagVars, readVars, guiVars>>
  \/ WriteLoop /\ UNCHANGED <<codecVars, monitorVars, tagVars, readVars, guiVars>>
  \/ WriteConnect /\ UNCHANGED <<codecVars, monitorVars, tagVars, readVars, guiVars>>
  \/ WriteTransmit /\ UNCHANGED <<codecVars, monitorVars, tag0, readVars, guiVars>>
  \/ WriteDisconnectOnError
       /\ UNCHANGED <<codecVars, monitorVars, tagVars, readVars, guiVars>>
  \/ WriteDisconnect /\ UNCHANGED <<codecVars, monitorVars, tagVars, readVars, guiVars>>
  \/ ReadAfterWrite /\ UNCHANGED <<codecVars, monitorVars, writeVars, tagVars, guiVars>>
  \/ ReadReaders /\ UNCHANGED <<codecVars, monitorVars, writeVars, tagVars, guiVars>>
  \/ ReadLoop /\ UNCHANGED <<codecVars, monitorVars, writeVars, tagVars, guiVars>>
  \/ ReadConnect /\ UNCHANGED <<codecVars, monitorVars, writeVars, tagVars, guiVars>>
  \/ ReadTransmit /\ UNCHANGED <<codecVars, monitorVars, writeVars, tagVars, guiVars>>
  \/ ReadDisconnect /\ UNCHANGED <<codecVars, monitorVars, writeVars, tagVars, guiVars>>

SpecRoundTrip == InitRoundTrip /\ [][NextRoundTrip]_vars

\* The read went through all twelve pages and each answered 90 00.
AllPagesRead ==
  /\ rpc = "done"
  /\ Len(robs) = EndReadPage - FirstReadPage
  /\ \A i \in 1..Len(robs) :
       /\ ~TransactionRaised(robs[i])
       /\ robs[i].sw = <<144, 0>>

\* C22: tag round trip.  After write_to_tag has succeeded for a
\* 42-character encoded record s, a read_tag in which all twelve page reads
\* succeed emits exactly s, whatever the pages of the tag held before the
\* write.
C22_RoundTrip ==
  (WriteSucceeded /\ Len(wdata) = 42 /\ AllPagesRead)
    => rresult = <<ReadData([i \in 1..Len(wdata) |-> ord(wdata[i])])>>

(***************************************************************************)
(* YGOWriter: the window.  The monitor runs on nfc_monitor_thread and its  *)
(* signals reach the window's slots through the GUI thread's event queue,  *)
(* in the order of emission.  A slot runs to its end before the next one   *)
(* starts; on_write_button_clicked runs write_to_tag inside the slot, so   *)
(* the GUI thread handles nothing else until write_to_tag has returned.    *)
(* start_read_tag starts an NFCReadThread, which runs read_tag beside the  *)
(* GUI thread and the monitor thread.                                      *)
(***************************************************************************)
\* Bound: the number of NFCReadThread objects a behaviour starts.
MaxReadThreads == 2

\* The GUI thread is not inside write_to_tag.
GuiFree == wpc \in {"idle", "done"}

\* ' '.join(uid[i:i + 2] for i in range(0, len(uid), 2))
FormatUidLabel(uid) ==
  Join([k \in 1..((Len(uid) + 1) \div 2) |->
          (IF k > 1 THEN <<" ">> ELSE <<>>) \o Slice(uid, 2 * (k - 1), 2 * k)])

\* if self.nfc_status == 2
ReadAllowed(status) == status = 2

\* The test of on_write_button_clicked without the status.
WriteAllowedAnyStatus(status, selected) == selected # <<>>

\* if self.nfc_status == 2 and self.current_card
WriteAllowed(status, selected) == status = 2 /\ selected # <<>>

\* start_read_tag: a new NFCReadThread is created and started whenever the
\* status is 2, whether or not an earlier one is still running.  The steps
\* of read_tag are followed for the first thread started.
start_read_tag ==
  IF ReadAllowed(nfc_status)
  THEN /\ read_threads < MaxReadThreads
       /\ wpc = "idle"
       /\ read_threads' = read_threads + 1
       /\ IF rpc = "idle" THEN ReadCall ELSE UNCHANGED readVars
       /\ UNCHANGED lbl_read_console
  ELSE /\ lbl_read_console' = "Error: No Tag is Detected."
       /\ UNCHANGED <<read_threads, readVars>>

\* handle_nfc_status(state), for the next notification in the queue
HandleNfcStatus ==
  /\ GuiFree /\ handled < Len(emitted)
  /\ LET e == emitted[handled + 1]
     IN  /\ e.sig = "statusChanged"
         /\ nfc_status' = IF e.state = 0 THEN 3 ELSE e.state
         /\ lbl_taguid' = IF e.state \in {0, 1} THEN <<>> ELSE lbl_taguid
  /\ handled' = handled + 1
  /\ UNCHANGED <<chk_readonly, bttn_write, read_threads, cardVars, msgVars,
                 deskVars, readVars>>

\* handle_tag_uid(uid), for the next notification in the queue
HandleTagUid ==
  /\ GuiFree /\ handled < Len(emitted)
  /\ LET e == emitted[handled + 1]
     IN  /\ e.sig = "tagUIDDetected"
         /\ lbl_taguid' = FormatUidLabel(e.uid)
  /\ handled' = handled + 1
  /\ IF chk_readonly THEN start_read_tag
     ELSE UNCHANGED <<read_threads, lbl_read_console, readVars>>
  /\ UNCHANGED <<nfc_status, chk_readonly, bttn_write, cardVars, console,
                 deskVars>>

\* bttn_readtag.clicked
ReadClick ==
  /\ GuiFree
  /\ start_read_tag
  /\ UNCHANGED <<nfc_status, handled, lbl_taguid, chk_readonly, bttn_write,
                 cardVars, console, deskVars>>

\* chk_readonly.toggled: update_readonly_mode(checked)
UpdateReadonlyMode ==
  /\ GuiFree
  /\ chk_readonly' = ~chk_readonly
  /\ IF chk_readonly'
     THEN /\ bttn_write' = FALSE
          /\ console' = "Read-only mode enabled. Write function disabled."
          /\ IF nfc_status = 2 THEN start_read_tag
             ELSE UNCHANGED <<read_threads, lbl_read_console, readVars>>
     ELSE /\ bttn_write' = TRUE
          /\ console' = "Read-only mode disabled. Write function enabled."
          /\ UNCHANGED <<read_threads, lbl_read_console, readVars>>
  /\ UNCHANGED <<nfc_status, handled, lbl_taguid, cardVars, deskVars>>

\* The catalog entry the session selects, and the fields
\* parse_ygo_nfc_encode builds for it.
SessionCardId == DigitRun(5)

SessionFields ==
  [identifier |-> <<"Y", "G", "0", "1">>, passcode |-> SessionCardId,
   konami_id |-> <<"0">>, variant |-> <<"0", "0", "0", "0">>,
   set_id |-> <<"L", "O", "B">>, lang |-> <<"E", "N">>,
   number |-> <<"0", "0", "1">>, rarity |-> <<"U", "R">>,
   edition |-> <<"1", "E">>]

CardUrls(card_id) ==
  <<[site |-> "ygoprodeck", id |-> card_id],
    [site |-> "yugipedia", id |-> card_id]>>

\* parse_ygo_nfc_encode: YuGiOhCard(...) either raises, and nothing is
\* assigned, or gives the new encoded_card and the text of le_finalstring.
parse_ygo_nfc_encode(fields) ==
  LET r == encode_card(fields)
  IN  IF r.ok
      THEN /\ encoded_card' = [constructed |-> TRUE, fields |-> r.self,
                               encoded_data |-> r.out]
           /\ le_finalstring' = r.out
      ELSE UNCHANGED <<encoded_card, le_finalstring>>

\* The fields parse_ygo_nfc_encode builds for the entry with this id: the
\* set code of the combo box is one YuGiOhCard accepts or one it rejects.
ParseInputs(card_id) ==
  { [SessionFields EXCEPT !.passcode = card_id],
    [SessionFields EXCEPT !.passcode = card_id, !.set_id = <<"A", "B">>] }

\* cmb_setid after the one set code of a card has been added to it.
ComboOf(fields) ==
  LET code == fields.set_id \o <<"-">> \o fields.lang \o fields.number
  IN  [items |-> <<code>>, current |-> code]

\* The cards search_db finds, with sorted(set_codes) of their card_sets: a
\* five-digit id, a four-digit id, a card whose first set code has a
\* two-letter set id, a card without sets.
Catalog ==
  { [id   |-> SessionCardId,
     sets |-> << <<"L", "O", "B", "-", "E", "N", "0", "0", "1">> >>],
    [id   |-> DigitRun(4),
     sets |-> << <<"L", "O", "B", "-", "E", "N", "0", "0", "2">> >>],
    [id   |-> DigitRun(6),
     sets |-> << <<"A", "B", "-", "E", "N", "0", "0", "1">>,
                 <<"L", "O", "B", "-", "E", "0", "0", "3">> >>],
    [id   |-> DigitRun(7), sets |-> <<>>] }

\* The length of the longest run of characters of chars in s from index i.
RunLen(s, i, chars) ==
  CHOOSE n \in 0..(Len(s) + 1 - i) :
    /\ \A k \in 0..(n - 1) : s[i + k] \in chars
    /\ i + n > Len(s) \/ s[i + n] \notin chars

\* re.match(r"([A-Za-z0-9]+)-([A-Za-z]{1,2})?([A-Za-z0-9]+)", set_id_text):
\* group 2 takes two letters, else one, else nothing, as long as group 3
\* keeps one character.  The set codes of the catalog are in capitals.
SetIdMatch(text) ==
  LET LetterChars == { UpperLetters[k] : k \in 1..26 }
      AlnumChars == LetterChars \cup DigitChars
      n1 == RunLen(text, 1, AlnumChars)
      st == n1 + 2
      n3 == IF st <= Len(text) THEN RunLen(text, st, AlnumChars) ELSE 0
      k  == IF n3 >= 3 /\ text[st] \in LetterChars
                       /\ text[st + 1] \in LetterChars THEN 2
            ELSE IF n3 >= 2 /\ text[st] \in LetterChars THEN 1
            ELSE 0
  IN  IF n1 >= 1 /\ Len(text) > n1 /\ text[n1 + 1] = "-" /\ n3 >= 1
      THEN [matched |-> TRUE, g1 |-> SubSeq(text, 1, n1),
            g2 |-> SubSeq(text, st, st + k - 1),
            g3 |-> SubSeq(text, st + k, st + n3 - 1)]
      ELSE [matched |-> FALSE, g1 |-> <<>>, g2 |-> <<>>, g3 |-> <<>>]

\* KonamiDatabase.get_konami_id: the codes table has a row for the session's
\* card only.
get_konami_id(passcode) ==
  IF passcode = SessionCardId THEN <<"0">> ELSE Rep("0", 8)

\* The arguments parse_ygo_nfc_encode gives YuGiOhCard for the selected card
\* and the current text of cmb_setid.  cmb_rarity is filled and cleared with
\* cmb_setid: its text maps to UR, the empty text to the default.
ParseFields(card_id, set_id_text) ==
  LET m == SetIdMatch(set_id_text)
  IN  [identifier |-> <<"Y", "G", "0", "1">>,
       passcode   |-> card_id,
       konami_id  |-> IF card_id # Rep("0", 10) THEN get_konami_id(card_id)
                      ELSE Rep("0", 8),
       variant    |-> <<"0", "0", "0", "0">>,
       set_id     |-> IF m.matched THEN m.g1 ELSE <<"X", "X", "X", "X">>,
       lang       |-> IF m.matched
                      THEN ljust(IF m.g2 # <<>> THEN m.g2 ELSE <<"X", "X">>,
                                 2, "X")
                      ELSE <<"X", "X">>,
       number     |-> IF m.matched THEN m.g3 ELSE <<"X", "X", "X">>,
       rarity     |-> IF set_id_text = <<>> THEN <<"0", "0">>
                      ELSE <<"U", "R">>,
       edition    |-> <<"1", "E">>]

\* One call of parse_ygo_nfc_encode as a slot of currentTextChanged or at
\* the end of procLabelClick: encoded_card and le_finalstring after it, from
\* those before it (prev).  When YuGiOhCard(...) raises nothing is assigned;
\* the exception of a slot is printed and the caller goes on.
Parsed(prev, card_id, set_id_text) ==
  LET r == encode_card(ParseFields(card_id, set_id_text))
  IN  IF card_id = <<>> THEN prev
      ELSE IF r.ok
      THEN [enc |-> [constructed |-> TRUE, fields |-> r.self,
                     encoded_data |-> r.out],
            fin |-> r.out]
      ELSE prev

\* procLabelClick(card_id): the card becomes current_card; cmb_setid.clear()
\* and the first addItem change the current text, and each change calls
\* parse_ygo_nfc_encode; the handler ends with a call of its own.
procLabelClick(card_id) ==
  IF card_id = <<>>
  THEN UNCHANGED <<cardVars, console>>
  ELSE IF \A c \in Catalog : c.id # card_id
  THEN /\ console' = "No card found for ID"
       /\ UNCHANGED cardVars
  ELSE LET codes == (CHOOSE c \in Catalog : c.id = card_id).sets
           text  == IF codes = <<>> THEN <<>> ELSE codes[1]
           s0 == [enc |-> encoded_card, fin |-> le_finalstring]
           s1 == IF cmb_setid.current # <<>>
                 THEN Parsed(s0, card_id, <<>>) ELSE s0
           s2 == IF text # <<>> THEN Parsed(s1, card_id, text) ELSE s1
           s3 == Parsed(s2, card_id, text)
       IN  /\ current_card' = card_id
           /\ current_card_urls' = CardUrls(card_id)
           /\ cmb_setid' = [items |-> codes, current |-> text]
           /\ encoded_card' = s3.enc
           /\ le_finalstring' = s3.fin
           /\ console' = "Found Card"  \* search_db reports the row

\* The label of the session's card is clicked.
ProcLabelClick ==
  /\ GuiFree
  /\ procLabelClick(SessionCardId)
  /\ UNCHANGED <<sessionVars, lbl_read_console, deskVars>>

\* A label of the list is clicked: any card of the catalog, or an id
\* search_db does not find, or no id.
SelectCard ==
  /\ GuiFree
  /\ \E card_id \in {c.id : c \in Catalog} \cup {DigitRun(8), <<>>} :
       procLabelClick(card_id)
  /\ UNCHANGED <<sessionVars, lbl_read_console, deskVars>>

\* The user picks another item of cmb_setid: currentTextChanged calls
\* parse_ygo_nfc_encode.
SetIdActivated ==
  /\ GuiFree
  /\ \E k \in 1..Len(cmb_setid.items) :
       LET text == cmb_setid.items[k]
           s == Parsed([enc |-> encoded_card, fin |-> le_finalstring],
                       current_card, text)
       IN  /\ text # cmb_setid.current
           /\ cmb_setid' = [cmb_setid EXCEPT !.current = text]
           /\ encoded_card' = s.enc
           /\ le_finalstring' = s.fin
  /\ UNCHANGED <<sessionVars, current_card, current_card_urls, msgVars,
                 deskVars>>

\* bttn_write.clicked: on_write_button_clicked.  write_to_tag is entered
\* with the encoded record; its steps follow on the GUI thread.
OnWriteButtonClicked ==
  /\ GuiFree /\ bttn_write
  /\ IF WriteAllowed(nfc_status, current_card)
     THEN /\ encoded_card.constructed  \* on None the slot ends in an exception
          /\ read_threads = 0
          /\ WriteCallWith(encoded_card.encoded_data)
          /\ UNCHANGED console
     ELSE /\ console' = "Connect a NFC Tag to Write."
          /\ UNCHANGED writeVars
  /\ UNCHANGED <<sessionVars, cardVars, lbl_read_console, deskVars>>

\* writeResult is connected to handle_write_result, which runs inside the
\* emit: console_out(message)
handle_write_result ==
  /\ console' = IF wresult' # wresult THEN wresult'[Len(wresult')].msg
                ELSE console
  /\ UNCHANGED <<sessionVars, cardVars, lbl_read_console, deskVars>>

\* Bound: the number of poll cycles a session holds.
MaxSessionPolls == 2

SessionPoll == MonitorLoop /\ polls < MaxSessionPolls

\* What the reader answers in a session: a reader is connected; a poll finds
\* no tag (connect raises) or the tag with UID 04 0A.
PollReaders == MonitorReaders /\ obs'.readers = "present"

PollTransmit ==
  /\ MonitorTransmit
  /\ obs'.transmit = "ok" /\ obs'.sw = SW_OK /\ obs'.response = <<4, 10>>

PollDisconnect == MonitorDisconnect /\ obs'.disconnect = "ok"

\* The pages of a read in a session answer 90 00 or the call raises.
SessionReadTransmit ==
  /\ ReadTransmit
  /\ robs'[Len(robs')].sw \in {<<>>, SW_OK}

\* The pages of a write in a session answer 90 00 or the call raises.
SessionWriteTransmit ==
  /\ WriteTransmit
  /\ wobs'[Len(wobs')].sw \in {<<>>, SW_OK}

InitSession ==
  /\ MonitorIdle /\ WriteIdle /\ ReadIdle /\ CodecIdle /\ GuiIdle
  /\ tag0 = BlankTag /\ tag = tag0

NextSession ==
  \/ SessionPoll
       /\ UNCHANGED <<codecVars, writeVars, tagVars, readVars, guiVars>>
  \/ PollReaders
       /\ UNCHANGED <<codecVars, writeVars, tagVars, readVars, guiVars>>
  \/ MonitorConnect
       /\ UNCHANGED <<codecVars, writeVars, tagVars, readVars, guiVars>>
  \/ PollTransmit
       /\ UNCHANGED <<codecVars, writeVars, tagVars, readVars, guiVars>>
  \/ PollDisconnect
       /\ UNCHANGED <<codecVars, writeVars, tagVars, readVars, guiVars>>
  \/ MonitorEmit
       /\ UNCHANGED <<codecVars, writeVars, tagVars, readVars, guiVars>>
  \/ HandleNfcStatus
       /\ UNCHANGED <<codecVars, monitorVars, writeVars, tagVars>>
  \/ HandleTagUid
       /\ UNCHANGED <<codecVars, monitorVars, writeVars, tagVars>>
  \/ ReadClick
       /\ UNCHANGED <<codecVars, monitorVars, writeVars, tagVars>>
  \/ UpdateReadonlyMode
       /\ UNCHANGED <<codecVars, monitorVars, writeVars, tagVars>>
  \/ ProcLabelClick
       /\ UNCHANGED <<codecVars, monitorVars, writeVars, tagVars, readVars>>
  \/ OnWriteButtonClicked
       /\ UNCHANGED <<codecVars, monitorVars, tagVars, readVars>>
  \/ WriteReaders /\ handle_write_result
       /\ UNCHANGED <<codecVars, monitorVars, tagVars, readVars>>
  \/ WriteLoop /\ handle_write_result
       /\ UNCHANGED <<codecVars, monitorVars, tagVars, readVars>>
  \/ WriteConnect /\ handle_write_result
       /\ UNCHANGED <<codecVars, monitorVars, tagVars, readVars>>
  \/ SessionWriteTransmit /\ handle_write_result
       /\ UNCHANGED <<codecVars, monitorVars, tag0, readVars>>
  \/ WriteDisconnectOnError /\ handle_write_result
       /\ UNCHANGED <<codecVars, monitorVars, tagVars, readVars>>
  \/ WriteDisconnect /\ handle_write_result
       /\ UNCHANGED <<codecVars, monitorVars, tagVars, readVars>>
  \/ ReadReaders
       /\ UNCHANGED <<codecVars, monitorVars, writeVars, tagVars, guiVars>>
  \/ ReadLoop
       /\ UNCHANGED <<codecVars, monitorVars, writeVars, tagVars, guiVars>>
  \/ ReadConnect
       /\ UNCHANGED <<codecVars, monitorVars, writeVars, tagVars, guiVars>>
  \/ SessionReadTransmit
       /\ UNCHANGED <<codecVars, monitorVars, writeVars, tagVars, guiVars>>
  \/ ReadDisconnect
       /\ UNCHANGED <<codecVars, monitorVars, writeVars, tagVars, guiVars>>

SpecSession == InitSession /\ [][NextSession]_vars

(***************************************************************************)
(* Properties of a session, checked under SpecSession.                     *)
(***************************************************************************)
\* The read_tag the model follows has been entered and has not returned.
ReadRunning == rpc \notin {"idle", "done", "raised"}

\* C21: at most one on-demand read is in flight: no NFCReadThread is
\* started while the read_tag of an earlier one has not yet emitted its
\* result.
C21_OneReadInFlight == ReadRunning => read_threads <= 1

\* A connection of the thread is open: connect() has returned and
\* disconnect() has not.
MonitorOpen == mpc \in {"transmit", "disconnect"}

WriteOpen == wconn

ReadOpen == rpc \in {"transmit", "disconnect"}

\* The first page transaction of the operation has opened its connection
\* and the operation has not ended.
WriteInProgress ==
  wobs # <<>> /\ wobs[1].connect = "ok" /\ wpc # "done"

ReadInProgress ==
  robs # <<>> /\ robs[1].connect = "ok" /\ ReadRunning

\* C23: at any time at most one connection to the reader is open: the
\* transactions of the polling loop, of write_to_tag and of read_tag never
\* overlap, and no poll transaction lies between the first and the last
\* page transaction of a write or a read.
C23_OneConnection ==
  /\ ~(MonitorOpen /\ WriteOpen)
  /\ ~(MonitorOpen /\ ReadOpen)
  /\ ~(WriteOpen /\ ReadOpen)
  /\ ~(MonitorOpen /\ (WriteInProgress \/ ReadInProgress))

\* The state of the most recent status notification the GUI has handled.
HandledStatus ==
  LET hs == SelectSeq(SubSeq(emitted, 1, handled),
                      LAMBDA e : e.sig = "statusChanged")
  IN  IF hs = <<>> THEN NoneState ELSE hs[Len(hs)].state

\* C25: a write or an on-demand read issues transactions only if the most
\* recent status notification handled by the GUI was TagPresent, and for a
\* write only if a card is selected; otherwise the trigger issues no
\* transaction and only leaves its error message.
C25_GuardedTriggers ==
  [][ /\ (wpc = "idle" /\ wpc' # "idle")
           => (HandledStatus = 2 /\ current_card # <<>>)
      /\ (read_threads' # read_threads \/ (rpc = "idle" /\ rpc' # "idle"))
           => HandledStatus = 2
      /\ wobs' # wobs => wpc # "idle"
      /\ robs' # robs => read_threads > 0
      /\ (console' # console /\ console' = "Connect a NFC Tag to Write.")
           => /\ ~(HandledStatus = 2 /\ current_card # <<>>)
              /\ UNCHANGED <<writeVars, readVars, tagVars, read_threads>>
      /\ (lbl_read_console' # lbl_read_console
            /\ lbl_read_console' = "Error: No Tag is Detected.")
           => /\ HandledStatus # 2
              /\ UNCHANGED <<writeVars, readVars, tagVars, read_threads>>
    ]_vars

\* A write that was started with a tag reported and a card selected has
\* written its first page, after a click without a card was refused.
C25_Witness ==
  /\ HandledStatus = 2 /\ current_card # <<>>
  /\ Len(wobs) >= 1 /\ wobs[1].sw = <<144, 0>>
  /\ lbl_read_console = "Error: No Tag is Detected."

(***************************************************************************)
(* The selection of cards and the write of the selected card.  The monitor *)
(* polls as in a session; the user selects cards of the catalog, changes   *)
(* the set code and clicks the write button; no read is started.           *)
(***************************************************************************)
NextSelect ==
  \/ SessionPoll
       /\ UNCHANGED <<codecVars, writeVars, tagVars, readVars, guiVars>>
  \/ PollReaders
       /\ UNCHANGED <<codecVars, writeVars, tagVars, readVars, guiVars>>
  \/ MonitorConnect
       /\ UNCHANGED <<codecVars, writeVars, tagVars, readVars, guiVars>>
  \/ PollTransmit
       /\ UNCHANGED <<codecVars, writeVars, tagVars, readVars, guiVars>>
  \/ PollDisconnect
       /\ UNCHANGED <<codecVars, writeVars, tagVars, readVars, guiVars>>
  \/ MonitorEmit
       /\ UNCHANGED <<codecVars, writeVars, tagVars, readVars, guiVars>>
  \/ HandleNfcStatus
       /\ UNCHANGED <<codecVars, monitorVars, writeVars, tagVars>>
  \/ HandleTagUid
       /\ UNCHANGED <<codecVars, monitorVars, writeVars, tagVars>>
  \/ SelectCard
       /\ UNCHANGED <<codecVars, monitorVars, writeVars, tagVars, readVars>>
  \/ SetIdActivated
       /\ UNCHANGED <<codecVars, monitorVars, writeVars, tagVars, readVars>>
  \/ OnWriteButtonClicked
       /\ UNCHANGED <<codecVars, monitorVars, tagVars, readVars>>
  \/ WriteReaders /\ handle_write_result
       /\ UNCHANGED <<codecVars, monitorVars, tagVars, readVars>>
  \/ WriteLoop /\ handle_write_result
       /\ UNCHANGED <<codecVars, monitorVars, tagVars, readVars>>
  \/ WriteConnect /\ handle_write_result
       /\ UNCHANGED <<codecVars, monitorVars, tagVars, readVars>>
  \/ SessionWriteTransmit /\ handle_write_result
       /\ UNCHANGED <<codecVars, monitorVars, tag0, readVars>>
  \/ WriteDisconnectOnError /\ handle_write_result
       /\ UNCHANGED <<codecVars, monitorVars, tagVars, readVars>>
  \/ WriteDisconnect /\ handle_write_result
       /\ UNCHANGED <<codecVars, monitorVars, tagVars, readVars>>

SpecSelect == InitSession /\ [][NextSelect]_vars

\* The passcode field of a record, without its padding.
RecordPasscode(d) == rstrip(Slice(d, 4, 14), "-")

\* encoded_card, when there is one, is the encoding of current_card.
EncodedIsCurrent ==
  (current_card # <<>> /\ encoded_card.constructed)
    => /\ encoded_card.fields.passcode = ljust(current_card, 10, "-")
       /\ RecordPasscode(encoded_card.encoded_data) = current_card

\* The record write_to_tag is writing is the record of current_card.
WriteIsCurrent ==
  ~GuiFree => RecordPasscode(wdata) = current_card

\* C31: whenever a card is selected and encoded_card is set, encoded_card
\* is the encoding of the selected card, its passcode current_card's id;
\* and the record a write puts on the tag is never the record of a card
\* selected earlier.
C31_EncodedIsCurrent == EncodedIsCurrent /\ WriteIsCurrent

(***************************************************************************)
(* The window's handling of read results and its sends to the relay.  A    *)
(* read result is the string read_tag has emitted: a message, the text of  *)
(* the pages, or their hex digits.                                         *)
(***************************************************************************)
\* "No NFC reader found."
NoReaderText ==
  <<"N", "o", " ", "N", "F", "C", " ", "r", "e", "a", "d", "e", "r", " ",
    "f", "o", "u", "n", "d", ".">>

\* f"Error during tag read: {e}"
ErrorText(e) ==
  <<"E", "r", "r", "o", "r", " ", "d", "u", "r", "i", "n", "g", " ", "t",
    "a", "g", " ", "r", "e", "a", "d", ":", " ">> \o e

\* Texts of the exception: one makes the message 42 characters long.
ExceptionTexts ==
  { <<"t", "i", "m", "e", "o", "u", "t">>,
    <<"C", "a", "r", "d", " ", "w", "a", "s", " ", "r", "e", "m", "o", "v",
      "e", "d", ".", ".", ".">> }

\* full_data of a read of tag t in which the pages in failed are skipped.
RECURSIVE ReadBytes(_, _, _)
ReadBytes(t, failed, page) ==
  IF page >= EndReadPage THEN <<>>
  ELSE (IF page \in failed THEN <<>> ELSE t[page])
         \o ReadBytes(t, failed, page + 1)

\* The str of a result, character by character.
StrOf(cps) == [i \in 1..Len(cps) |-> chr(cps[i])]

\* What read_tag emits for full_data.
DataResult(bs) ==
  [kind |-> IF decode_utf8(bs).ok THEN "text" ELSE "hex",
   str  |-> StrOf(DataStr(bs))]

\* A tag that was written a record while its later pages held other data.
RecordOverOldTag ==
  [p \in TagPages |->
     IF p < StartPage + Len(Pages(encode_utf8(SampleRecord)))
     THEN TagOf(encode_utf8(SampleRecord))[p] ELSE OldTag[p]]

ReadResultInputs ==
  { DataResult(ReadBytes(t, failed, FirstReadPage)) :
      t \in ReadTags \cup {RecordOverOldTag}, failed \in {{}, {9}} }
    \cup { [kind |-> "message", str |-> NoReaderText] }
    \cup { [kind |-> "message", str |-> ErrorText(e)] : e \in ExceptionTexts }

\* decode_card accepting every string of the right length.
DecodeRaisesLength(tag_str) == Len(tag_str) # EncodedLen

\* try: decoded_card = YuGiOhCard.decode_card(tag_str); except ValueError
DecodeRaises(tag_str) == ~decode_card(tag_str).ok

CardState == <<current_card, encoded_card, current_card_urls>>

\* handle_read_tag_result(tag_str): the decode, the lookup in the local
\* database, then the request to the API; a card found becomes the selected
\* card and is encoded.
HandleReadTagResult ==
  /\ GuiFree
  /\ \E r \in ReadResultInputs :
       IF DecodeRaises(r.str)
       THEN /\ lbl_read_console' = "Error: ValueError on Decode."
            /\ UNCHANGED <<cardVars, console>>
            /\ last_read' = [called |-> TRUE, kind |-> r.kind,
                             tag_str |-> r.str, lookup |-> "none",
                             before |-> CardState, after |-> CardState]
       ELSE \E found \in {"db", "api", "error", "empty", "badjson"} :
            LET read_passcode == DecodeFields(r.str).passcode
            IN  /\ console' = IF found = "db" THEN "Found Card"
                              ELSE "Fetching card from API"
                /\ IF found \in {"db", "api"}
                   THEN /\ current_card' = read_passcode
                        /\ current_card_urls' = CardUrls(read_passcode)
                        /\ \E fields \in ParseInputs(read_passcode) :
                             /\ parse_ygo_nfc_encode(fields)
                             /\ cmb_setid' = ComboOf(fields)
                             /\ lbl_read_console' =
                                  IF ~encode_card(fields).ok
                                  THEN lbl_read_console
                                  ELSE IF found = "db"
                                  THEN "Card loaded from local database."
                                  ELSE "Card loaded from API."
                   ELSE /\ lbl_read_console' =
                             IF found = "error" THEN "API Error"
                             ELSE IF found = "empty"
                             THEN "Card not found in API."
                             ELSE "Error: Failed to decode API response."
                        /\ UNCHANGED cardVars
                /\ last_read' = [called |-> TRUE, kind |-> r.kind,
                                 tag_str |-> r.str,
                                 lookup |-> IF found = "db" THEN "db"
                                            ELSE "api",
                                 before |-> CardState, after |-> CardState']
  /\ UNCHANGED <<sessionVars, last_send, sent, pending>>

RemovedTag ==
  <<"R", "e", "m", "o", "v", "e", "d", "T", "a", "g">>

\* send_actual_command(command_string, host, port): the bytes are sent, or
\* the connection fails and nothing is.
send_actual_command(command_string, sock) ==
  IF sock = "ok"
  THEN /\ sent' = sent \cup {encode_utf8(command_string)}
       /\ console' = "Success: Card Data sent successfully!"
  ELSE /\ console' = "Connection Error: Failed to send Card"
       /\ UNCHANGED sent

\* bttn_send_card.clicked (flag is the button's checked state, False) and
\* bttn_send_removed.clicked (flag is "Removed"): send_string(flag)
SendString ==
  /\ GuiFree
  /\ \E flag \in {"Removed", "False"}, port_ok \in BOOLEAN,
        chk_sendtagremoved \in BOOLEAN, sock \in {"ok", "raise"} :
       LET command_string == strip(le_finalstring) \o <<"X", "X">>
       IN  /\ IF command_string = <<>> /\ flag # "Removed"
              THEN /\ console' = "Error: No Card is Selected."
                   /\ UNCHANGED <<sent, pending>>
              ELSE IF ~port_ok  \* int(port_text) raises: the slot ends
              THEN UNCHANGED <<console, sent, pending>>
              ELSE IF flag = "Removed"
              THEN /\ send_actual_command(RemovedTag, sock)
                   /\ UNCHANGED pending
              ELSE IF chk_sendtagremoved
              THEN IF sock = "ok"
                   THEN /\ sent' = sent \cup {encode_utf8(RemovedTag)}
                        /\ console' = "Success: Removed tag sent successfully!"
                        /\ pending' = pending \cup {command_string}
                   ELSE /\ console' =
                             "Connection Error: Failed to send RemovedTag"
                        /\ UNCHANGED <<sent, pending>>
              ELSE /\ send_actual_command(command_string, sock)
                   /\ UNCHANGED pending
           /\ last_send' = [called |-> TRUE, flag |-> flag,
                            field |-> le_finalstring, port_ok |-> port_ok,
                            delivered |-> sent' \ sent,
                            scheduled |-> pending' \ pending,
                            console |-> console']
  /\ UNCHANGED <<sessionVars, cardVars, lbl_read_console, last_read>>

\* The timer of QTimer.singleShot ends: send_actual_command(command_string)
SendDelayed ==
  /\ GuiFree
  /\ \E command_string \in pending, sock \in {"ok", "raise"} :
       /\ pending' = pending \ {command_string}
       /\ send_actual_command(command_string, sock)
  /\ UNCHANGED <<sessionVars, cardVars, lbl_read_console, last_read,
                 last_send>>

InitGui ==
  /\ GuiIdle /\ MonitorIdle /\ WriteIdle /\ ReadIdle /\ CodecIdle /\ TagIdle

\* The window handling read results, cards being selected in between.
NextResult ==
  \/ ProcLabelClick
       /\ UNCHANGED <<codecVars, monitorVars, writeVars, tagVars, readVars>>
  \/ HandleReadTagResult
       /\ UNCHANGED <<codecVars, monitorVars, writeVars, tagVars, readVars>>

SpecResult == InitGui /\ [][NextResult]_vars

\* The window sending to the relay, cards being selected in between.
NextRelay ==
  \/ ProcLabelClick
       /\ UNCHANGED <<codecVars, monitorVars, writeVars, tagVars, readVars>>
  \/ SendString
       /\ UNCHANGED <<codecVars, monitorVars, writeVars, tagVars, readVars>>
  \/ SendDelayed
       /\ UNCHANGED <<codecVars, monitorVars, writeVars, tagVars, readVars>>

SpecRelay == InitGui /\ [][NextRelay]_vars

(***************************************************************************)
(* Properties of the handling of read results, checked under SpecResult,   *)
(* and of the sends to the relay, checked under SpecRelay.                 *)
(***************************************************************************)
\* C27: when a read result cannot be decoded as a record (an error
\* message, a hex fallback string, or a read whose length is not 42),
\* handle_read_tag_result leaves current_card, encoded_card and the link
\* list as they were, looks nothing up in the local database or the API,
\* and reports the decode error.
C27_UndecodableResult ==
  (last_read.called
     /\ (last_read.kind \in {"message", "hex"}
           \/ Len(last_read.tag_str) # EncodedLen))
    => /\ last_read.lookup = "none"
       /\ last_read.after = last_read.before
       /\ lbl_read_console = "Error: ValueError on Decode."

\* An error message of exactly 42 characters arrived while a card was
\* selected and encoded.
C27_Witness ==
  /\ last_read.called /\ last_read.kind = "message"
  /\ Len(last_read.tag_str) = EncodedLen
  /\ last_read.before[1] # <<>> /\ last_read.before[2].constructed
  /\ current_card = last_read.before[1]

\* C30: send_string sends nothing to the relay and reports "No Card is
\* Selected" when the final-record field is empty and the flag is not
\* "Removed"; every payload sent is "RemovedTag" or a non-empty encoded
\* record followed by the two characters "XX".
C30_RelayPayloads ==
  /\ (last_send.called /\ last_send.port_ok
        /\ strip(last_send.field) = <<>> /\ last_send.flag # "Removed")
       => /\ last_send.delivered = {} /\ last_send.scheduled = {}
          /\ last_send.console = "Error: No Card is Selected."
  /\ \A payload \in sent :
       \/ payload = encode_utf8(RemovedTag)
       \/ /\ Len(payload) > 2
          /\ SubSeq(payload, Len(payload) - 1, Len(payload)) = <<88, 88>>

=============================================================================
